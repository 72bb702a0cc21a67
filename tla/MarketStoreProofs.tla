-------------------------- MODULE MarketStoreProofs --------------------------
(***************************************************************************)
(* Proofs about MarketStore, for every set of pools and of streams.        *)
(***************************************************************************)
EXTENDS MarketStore, TLAPS

Position == {Idle} \cup [at : {"found", "missing", "queue"}, pool : Pool]

LEMMA TypeOfInit == StoreInit => StoreTypeOK
  <1> SUFFICES ASSUME StoreInit PROVE StoreTypeOK
    OBVIOUS
  <1>1. NoNews \in [Pool -> SUBSET News]
    BY DEF NoNews
  <1>2. handler \in [Feeder -> {Idle}]
    BY DEF StoreInit
  <1> QED BY <1>1, <1>2 DEF StoreInit, DirInit, StoreTypeOK

\* A write touches unheard and since only, and since only of a save that has
\* encoded.
LEMMA TypeOfWrite ==
  ASSUME StoreTypeOK, NEW p \in Pool, NEW news \in News, Write(p, news)
  PROVE  /\ unheard' \in [Pool -> SUBSET News] /\ since' \in [Pool -> SUBSET News]
         /\ saver # "encoded" => since' = NoNews
  BY DEF Write, StoreTypeOK

LEMMA TypeOfGoto ==
  ASSUME StoreTypeOK, NEW h \in Feeder, NEW step \in Position, Goto(h, step)
  PROVE  handler' \in [Feeder -> Position]
  BY DEF Goto, StoreTypeOK, Position

LEMMA TypeOfStep == StoreTypeOK /\ [StoreNext]_storeVars => StoreTypeOK'
  <1> SUFFICES ASSUME StoreTypeOK, [StoreNext]_storeVars PROVE StoreTypeOK'
    OBVIOUS
  <1> USE DEF StoreTypeOK
  <1>a. handler \in [Feeder -> Position]
    BY DEF Position
  <1>1. CASE UNCHANGED storeVars
    BY <1>1 DEF storeVars, saveVars, startVars
  <1>2. CASE Start
    <2>1. toFetch' \subseteq Pool
      BY <1>2 DEF Start
    <2> QED BY <1>2, <2>1 DEF Start, saveVars
  <1>3. CASE Crash \/ \E saved \in BOOLEAN : Stop(saved)
    BY <1>3, ZenonT(60) DEF Crash, Stop, Cleared, NoNews, Idle
  <1>4. CASE Refresh
    BY <1>4 DEF Refresh, Publish, saveVars, startVars
  <1>5. ASSUME NEW p \in Pool, NEW h \in Feeder, ReceivePool(h, p) PROVE StoreTypeOK'
    <2>1. handler' \in [Feeder -> Position]
      BY <1>5, TypeOfGoto DEF ReceivePool, Holding, Position
    <2> QED BY <1>5, <2>1 DEF ReceivePool, Position, saveVars
  <1>6. ASSUME NEW p \in Pool, NEW h \in Feeder, ReceiveVault(h, p) PROVE StoreTypeOK'
    <2>1. handler' \in [Feeder -> Position]
      BY <1>6, TypeOfGoto DEF ReceiveVault, Holding, Position
    <2> QED BY <1>6, <2>1, TypeOfWrite DEF ReceiveVault, Position, startVars, News
  <1>7. ASSUME NEW p \in Pool, ReceiveTickArray(p) \/ FetchBalance(p) PROVE StoreTypeOK'
    BY <1>7, TypeOfWrite DEF ReceiveTickArray, FetchBalance, startVars, News
  <1>8. ASSUME NEW h \in Feeder, Update(h) PROVE StoreTypeOK'
    <2>1. handler[h].pool \in Pool /\ handler[h] # Idle /\ up
      BY <1>8 DEF Update, WritePool, QueuePool, Idle
    <2>2. CASE WritePool(h)
      <3>1. handler' \in [Feeder -> Position]
        BY <2>1, <2>2, TypeOfGoto DEF WritePool, Holding, Position
      <3> QED BY <2>1, <2>2, <3>1, TypeOfWrite DEF WritePool, Learn, Position, News
    <2>3. CASE QueuePool(h)
      <3>1. handler' \in [Feeder -> Position]
        BY <2>3, TypeOfGoto DEF QueuePool, Position
      <3> QED BY <2>1, <2>3, <3>1 DEF QueuePool, Position, startVars
    <2> QED BY <1>8, <2>2, <2>3 DEF Update
  <1>9. CASE TakePools \/ EncodePools \/ ExecuteBatch \/ FailBatch
    <2>1. CASE TakePools
      BY <2>1 DEF TakePools, startVars
    <2>2. CASE EncodePools
      BY <2>2 DEF EncodePools, startVars
    <2>3. CASE ExecuteBatch
      BY <2>3 DEF ExecuteBatch, NoNews, startVars
    <2>4. CASE FailBatch
      BY <2>4 DEF FailBatch, NoNews, startVars
    <2> QED BY <1>9, <2>1, <2>2, <2>3, <2>4
  <1> QED
    BY <1>1, <1>2, <1>3, <1>4, <1>5, <1>6, <1>7, <1>8, <1>9
    DEF StoreNext, Feeder, PoolFeeder

\* Through starts, stops, crashes and saves that fail, every variable has its type,
\* and nothing is in memory while the process is down.
THEOREM StoreTypeCorrect == StoreSpec => []StoreTypeOK
  BY TypeOfInit, TypeOfStep, PTL DEF StoreSpec

-----------------------------------------------------------------------------
\* What is on its way must get there with the update: a pool in a batch that is
\* encoded already counts only if it has not been updated since.
Held(p) == \E h \in Feeder : handler[h].at = "queue" /\ handler[h].pool = p
InTime(p) == p \in batch /\ "queued" \notin since[p]
Coming(p) == p \in queue \/ Held(p) \/ InTime(p)

\* The store will not have heard of what was written after the encoding either.
SaveInv ==
  \A p \in known \ doubled :
    /\ "queued" \in unheard[p] => Coming(p)
    /\ "queued" \in since[p] => p \in queue \/ Held(p)

LEMMA SaveInvStep ==
  StoreTypeOK /\ SaveInv /\ [StoreNext]_storeVars => SaveInv'
  <1> SUFFICES ASSUME StoreTypeOK, SaveInv, [StoreNext]_storeVars,
                      NEW p \in Pool, p \in known' \ doubled'
               PROVE  /\ "queued" \in unheard'[p] => Coming(p)'
                      /\ "queued" \in since'[p] => (p \in queue \/ Held(p))'
    BY TypeOfStep DEF SaveInv, StoreTypeOK
  <1> DEFINE Good == /\ "queued" \in unheard[p] => Coming(p)
                     /\ "queued" \in since[p] => p \in queue \/ Held(p)
  <1>1. p \in known \ doubled => Good
    BY DEF SaveInv
  \* A step that leaves the pool, its place and its news alone.
  <1>a. ASSUME p \in known \ doubled, UNCHANGED <<unheard, queue, batch>>, Held(p) => Held(p)',
               since'[p] = since[p]
        PROVE  Good'
    BY <1>1, <1>a DEF Coming, InTime
  \* A write by a goroutine that holds the pool from then on.
  <1>b. ASSUME NEW h \in Feeder, NEW q \in Pool, Write(q, "queued"), Goto(h, Holding("queue", q)),
               handler[h].at # "queue", p \in known \ doubled \/ p = q,
               UNCHANGED <<queue, batch>>
        PROVE  Good'
    <2>1. handler'[h] = Holding("queue", q) /\ \A f \in Feeder \ {h} : handler'[f] = handler[f]
      BY <1>b DEF Goto, StoreTypeOK
    <2>2. CASE p = q
      <3>1. Held(p)'
        BY <2>1, <2>2 DEF Held, Holding
      <3> QED BY <3>1 DEF Coming
    <2>3. CASE p # q
      <3>1. Held(p) => Held(p)'
        BY <1>b, <2>1 DEF Held
      <3>2. unheard'[p] = unheard[p] /\ since'[p] = since[p]
        BY <1>b, <2>3 DEF Write, StoreTypeOK
      <3> QED BY <1>1, <1>b, <2>3, <3>1, <3>2 DEF Coming, InTime
    <2> QED BY <2>2, <2>3
  \* A write by one that queues nothing.
  <1>c. ASSUME NEW q \in Pool, Write(q, "silent"), p \in known \ doubled,
               UNCHANGED <<queue, batch, handler>>
        PROVE  Good'
    <2>1. /\ "queued" \in unheard'[p] => "queued" \in unheard[p]
          /\ "queued" \in since'[p] <=> "queued" \in since[p]
      BY <1>c DEF Write, StoreTypeOK
    <2>2. Held(p)' <=> Held(p)
      BY <1>c DEF Held
    <2> QED BY <1>1, <1>c, <2>1, <2>2 DEF Coming, InTime
  <1>2. CASE UNCHANGED storeVars
    BY <1>2, <1>a DEF storeVars, saveVars, startVars, Held
  <1>3. CASE Start
    BY <1>3 DEF Start, saveVars, StoreTypeOK, NoNews
  <1>4. CASE Crash \/ \E saved \in BOOLEAN : Stop(saved)
    BY <1>4 DEF Crash, Stop, Cleared
  <1>5. CASE Refresh
    BY <1>5, <1>a DEF Refresh, Publish, saveVars, startVars, Held
  <1>6. ASSUME NEW q \in Pool, NEW h \in Feeder, ReceivePool(h, q) PROVE Good'
    <2>1. \A f \in Feeder : handler[f].at = "queue" => handler'[f] = handler[f]
      BY <1>6 DEF ReceivePool, Goto, StoreTypeOK, Idle
    <2> QED BY <1>6, <1>a, <2>1 DEF ReceivePool, saveVars, Held
  <1>7. ASSUME NEW q \in Pool, NEW h \in Feeder, ReceiveVault(h, q) PROVE Good'
    BY <1>7, <1>b DEF ReceiveVault, startVars, Idle
  <1>8. ASSUME NEW q \in Pool, ReceiveTickArray(q) \/ FetchBalance(q) PROVE Good'
    BY <1>8, <1>c DEF ReceiveTickArray, FetchBalance, startVars
  <1>9. ASSUME NEW h \in Feeder, WritePool(h) PROVE Good'
    <2>1. handler[h].pool \in Pool
      BY <1>9 DEF WritePool, StoreTypeOK, Idle
    <2> QED BY <1>9, <2>1, <1>b DEF WritePool, Learn
  <1>10. ASSUME NEW h \in Feeder, QueuePool(h) PROVE Good'
    <2>1. \A f \in Feeder \ {h} : handler'[f] = handler[f]
      BY <1>10 DEF QueuePool, Goto, StoreTypeOK
    <2>2. Held(p) => Held(p)' \/ p \in queue'
      BY <1>10, <2>1 DEF QueuePool, Held
    <2> QED BY <1>1, <1>10, <2>2 DEF QueuePool, Coming, InTime, startVars
  <1>11. CASE TakePools \/ EncodePools
    <2>1. Held(p)' <=> Held(p)
      BY <1>11 DEF TakePools, EncodePools, Held
    <2>2. CASE TakePools
      <3>1. since[p] = {} /\ since' = since
        BY <2>2 DEF TakePools, StoreTypeOK, NoNews
      <3> QED BY <1>1, <2>1, <2>2, <3>1 DEF TakePools, Coming, InTime, StoreTypeOK, startVars
    <2>3. CASE EncodePools
      BY <1>1, <2>1, <2>3 DEF EncodePools, Coming, InTime, startVars
    <2> QED BY <1>11, <2>2, <2>3
  <1>12. CASE ExecuteBatch \/ FailBatch
    <2>1. Held(p)' <=> Held(p)
      BY <1>12 DEF ExecuteBatch, FailBatch, Held
    <2>2. since'[p] = {}
      BY <1>12 DEF ExecuteBatch, FailBatch, StoreTypeOK, NoNews
    <2>3. CASE ExecuteBatch
      BY <1>1, <2>1, <2>2, <2>3 DEF ExecuteBatch, Coming, InTime, startVars
    <2>4. CASE FailBatch
      BY <1>1, <2>1, <2>2, <2>4 DEF FailBatch, Coming, InTime, startVars
    <2> QED BY <1>12, <2>3, <2>4
  <1> QED
    BY <1>2, <1>3, <1>4, <1>5, <1>6, <1>7, <1>8, <1>9, <1>10, <1>11, <1>12
    DEF StoreNext, Update, Feeder, PoolFeeder, StoreTypeOK

\* What the handlers of pools and vaults write is on its way to the store or there,
\* for any pools, whatever save fails and whoever updates the pool while it is saved.
THEOREM UpdatesReachTheStore == StoreSpec => []UpdateIsOnItsWay
  <1>1. StoreInit => SaveInv
    BY DEF StoreInit, DirInit, SaveInv
  <1>2. SaveInv => UpdateIsOnItsWay
    BY DEF SaveInv, Coming, InTime, Held, UpdateIsOnItsWay
  <1> QED BY <1>1, <1>2, TypeOfInit, TypeOfStep, SaveInvStep, PTL DEF StoreSpec

=============================================================================
