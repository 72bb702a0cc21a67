---------------------------- MODULE BlockhashCache ----------------------------
(***************************************************************************)
(* The cache of the latest block hash (adapters/blockchain/                *)
(* blockhash_cache.go).  A subscription to block metadata and the requests *)
(* that found the entry too old overwrite it, each with what it has.       *)
(*                                                                         *)
(* Time is counted in blocks: a hash is named by the height of its block,  *)
(* and "now" is the height of the chain.  Neither call nor stream is slower *)
(* than a bound; that is an assumption on the node (the code sets no       *)
(* deadline of its own).                                                   *)
(***************************************************************************)
EXTENDS Integers

CONSTANTS
  Req,        \* the requests, each of which asks for a hash once
  NoHash,     \* the nil pointer
  Fresh,      \* 2 s, in blocks
  Lag,        \* how far a finalized block is behind
  Latency,    \* how long an RPC call takes at most
  StreamLag,  \* how late the metadata of a block comes at most
  Validity,   \* for how many blocks a hash is good, 150
  MaxHeight   \* bound on the height of the chain

ASSUME HashAssumption ==
  /\ Fresh \in Nat /\ Lag \in Nat /\ Latency \in Nat /\ StreamLag \in Nat
  /\ Validity \in Nat /\ MaxHeight \in Nat

\* The metadata of a block is not later than an answer for a finalized block may
\* be, and the oldest hash that is served as fresh has not expired.
ASSUME DelayAssumption ==
  StreamLag <= Lag + Latency /\ Fresh + Lag + Latency < Validity

VARIABLES
  height,     \* of the chain
  current,    \* svc.current
  call        \* the call of GetBlockhash of each request

hashVars == <<height, current, call>>

-----------------------------------------------------------------------------
\* CachedBlockhash: the block, the LastValidBlockHeight recorded with its hash,
\* and when it was stored.
Entry == [block : Nat, valid : Nat, at : Nat]
Cached == Entry \cup {NoHash}

\* What GetBlockhash returned, and whether it fell back on an old entry because
\* the RPC call failed.
Given == [block : Nat, valid : Nat, at : Nat, fallback : BOOLEAN] \cup {NoHash}

\* A call: not made, waiting for the RPC node with what it read from the cache,
\* or over ("failed" with an error).
Call == [stage : {"none", "rpc", "given", "failed"}, cached : Cached,
         since : Nat, given : Given]

NoCall == [stage |-> "none", cached |-> NoHash, since |-> 0, given |-> NoHash]

Stored(b, v) == [block |-> b, valid |-> v, at |-> height]

Return(c, b, v, fell) ==
  [c EXCEPT !.stage = "given",
            !.given = [block |-> b, valid |-> v, at |-> height, fallback |-> fell]]

\* Mutant: the age of the entry is not looked at.
IsThere(e) == e # NoHash

IsFresh(e) == e # NoHash /\ height - e.at < Fresh

\* The node answers for a finalized block, of any moment of the call.
Finalized(since) == {b \in 0..height : b >= since - Lag}

-----------------------------------------------------------------------------
\* Start: the first fetch may fail.
HashInit ==
  /\ height = Lag
  /\ current \in {NoHash} \cup {[block |-> b, valid |-> b + Validity, at |-> Lag] : b \in 0..Lag}
  /\ call = [r \in Req |-> NoCall]

NextBlock ==
  /\ height < MaxHeight
  /\ \A r \in Req : call[r].stage = "rpc" => height - call[r].since < Latency
  /\ height' = height + 1
  /\ UNCHANGED <<current, call>>

\* handleBlockMeta: the entry is replaced whatever its slot; metadata without a
\* block height count as height 0.
HandleBlockMeta ==
  /\ \E b \in {h \in 0..height : h >= height - StreamLag}, known \in BOOLEAN :
       current' = Stored(b, (IF known THEN b ELSE 0) + Validity)
  /\ UNCHANGED <<height, call>>

GetCached(r) ==
  /\ call[r].stage = "none"
  /\ IsFresh(current)
  /\ call' = [call EXCEPT ![r] = Return(@, current.block, current.valid, FALSE)]
  /\ UNCHANGED <<height, current>>

\* The lock is not held while the node is asked.
AskNode(r) ==
  /\ call[r].stage = "none"
  /\ ~IsFresh(current)
  /\ call' = [call EXCEPT ![r].stage = "rpc", ![r].cached = current, ![r].since = height]
  /\ UNCHANGED <<height, current>>

\* The answer replaces the entry, although a newer one may have come meanwhile.
NodeAnswers(r) ==
  /\ call[r].stage = "rpc"
  /\ \E b \in Finalized(call[r].since) :
       /\ current' = Stored(b, b + Validity)
       /\ call' = [call EXCEPT ![r] = Return(@, b, b + Validity, FALSE)]
  /\ UNCHANGED height

\* Without an answer the entry read before the call is used, if there was one.
NodeFails(r) ==
  /\ call[r].stage = "rpc"
  /\ call' = [call EXCEPT ![r] =
       IF @.cached = NoHash THEN [@ EXCEPT !.stage = "failed"]
       ELSE Return(@, @.cached.block, @.cached.valid, TRUE)]
  /\ UNCHANGED <<height, current>>

GetBlockhash(r) == GetCached(r) \/ AskNode(r) \/ NodeAnswers(r) \/ NodeFails(r)

-----------------------------------------------------------------------------
HashTypeOK ==
  height \in Nat /\ current \in Cached /\ call \in [Req -> Call]

\* A transaction can land: the hash it is given has not expired when it is given,
\* unless the node could not be asked.  The age of a hash is the sum of three
\* delays that no single step sees: that of the node or the stream, that of the
\* call, which stamps the answer with the time it came, and that in the cache.
HashCanLand ==
  \A r \in Req : LET g == call[r].given IN
    g # NoHash /\ ~g.fallback => g.at < g.block + Validity

\* The client is never told to wait for longer than the hash is good: the height
\* returned is that of the same block as the hash, or lower (metadata without a
\* height), however the entry is overwritten during the call.
NeverOverpromised ==
  \A r \in Req : LET g == call[r].given IN
    g # NoHash => g.valid <= g.block + Validity

\* Both: what a request is given is a hash to build on.
HashIsGood == HashCanLand /\ NeverOverpromised

\* What makes the two hold: no entry is older than the delays when it is stored.
EntriesAreRecent ==
  /\ current # NoHash =>
       /\ current.at <= height /\ current.block <= current.at
       /\ current.at - current.block <= Lag + Latency
       /\ current.valid <= current.block + Validity
  /\ \A r \in Req :
       /\ call[r].stage = "rpc" => /\ call[r].since <= height
                                   /\ height - call[r].since <= Latency
       /\ call[r].cached # NoHash => call[r].cached.valid <= call[r].cached.block + Validity
=============================================================================
