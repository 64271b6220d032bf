----------------------------- MODULE BaseIndex ------------------------------
(***************************************************************************)
(* An optional index (index/base.cpp: txindex, block filters, coin stats)  *)
(* following the active chain: a sync thread walks the chain until it has  *)
(* caught up, then the events of the validation queue keep the index up.   *)
(*                                                                         *)
(* The chain changes under cs_main, and the events of a change are queued  *)
(* before cs_main is released; the queue is the FIFO that ValidationQueue  *)
(* is shown to be.  A commit writes a locator of m_best_block_index; the   *)
(* locator is the block here, since FindForkInGlobalIndex finds the last   *)
(* block it shares with the chain whatever part of it is known.            *)
(***************************************************************************)
EXTENDS BlockTree, Sequences

CONSTANTS
  MaxMoves,        \* bound on the changes of the active chain
  MaxCrashes,      \* bound on crashes, and on restarts
  MaxFailures,     \* bound on the commits, reads and writes that fail
  LocatorLeads     \* whether a crash or a failed write may fall between a
                   \* commit of the sync thread and its next WriteBlock
VARIABLES
  tip,             \* m_chain.Tip()
  flushed,         \* the tip the coins database on disk is at
  queue,           \* the validation queue
  handling,        \* the block whose BlockConnected is past its checks, or NoBlock
  best,            \* m_best_block_index
  synced,          \* m_synced
  pc,              \* the sync thread: "top" of its loop, "write", "done"
  pindex,          \* its local pindex
  locator,         \* DB_BEST_BLOCK on disk
  written,         \* the blocks in the index database
  reader,          \* a thread in BlockUntilSyncedToCurrentChain
  fatal,           \* FatalError was called: the node is shutting down
  moves, crashes, failures

chainVars == <<tip, flushed, moves>>
syncVars == <<pc, pindex>>
vars == <<tip, flushed, queue, handling, best, synced, pc, pindex, locator, written,
          reader, fatal, moves, crashes, failures>>

\* The same with no block for a parent, an empty chain and its Height().
UpTo(b) == IF b = NoBlock THEN {} ELSE Ancestors[b]
HeightOf(b) == IF b = NoBlock THEN -1 ELSE Height[b]
Prev(b) == IF b = Genesis THEN NoBlock ELSE Parent[b]

ASSUME IndexAssumption ==
  /\ {MaxMoves, MaxCrashes, MaxFailures} \subseteq Nat
  /\ LocatorLeads \in BOOLEAN

Connected(b) == [type |-> "BlockConnected", block |-> b]
Flushed(b) == [type |-> "ChainStateFlushed", block |-> b]
Promise == [type |-> "Promise", block |-> NoBlock]
Event == [type : {"BlockConnected", "ChainStateFlushed", "Promise"}, block : Block \cup {NoBlock}]
Reader(s, b) == [state |-> s, tip |-> b]

TypeOK ==
  /\ {tip, flushed, handling, best, pindex, locator} \subseteq Block \cup {NoBlock}
  /\ queue \in Seq(Event)
  /\ pc \in {"top", "write", "done"}
  /\ synced \in BOOLEAN /\ fatal \in BOOLEAN
  /\ written \subseteq Block
  /\ reader \in [state : {"idle", "waiting", "returned"}, tip : Block \cup {NoBlock}]
  /\ moves \in 0..MaxMoves /\ crashes \in 0..MaxCrashes /\ failures \in 0..MaxFailures

\* CChain::FindFork, and FindForkInGlobalIndex of a locator of b.
FindFork(b, t) ==
  IF b = NoBlock \/ t = NoBlock THEN NoBlock
  ELSE CHOOSE a \in UpTo(b) \cap UpTo(t) :
         \A c \in UpTo(b) \cap UpTo(t) : HeightOf(c) <= HeightOf(a)

\* CChain::Next: the block after b on the chain of t, NoBlock at its tip.
ChainNext(b, t) ==
  IF \E c \in UpTo(t) : Prev(c) = b THEN CHOOSE c \in UpTo(t) : Prev(c) = b ELSE NoBlock

\* Start and Init: the state of an index whose database has locator l, in a
\* node whose chain is at t.
StartIndex(l, t) ==
  /\ best' = FindFork(l, t)
  /\ synced' = (best' = t)
  /\ pindex' = best'
  /\ pc' = IF synced' THEN "done" ELSE "top"

\* A node that runs for the first time starts its indexes before genesis is
\* connected; one that has run without the index has a chain.
Init ==
  /\ tip \in {NoBlock, Genesis} /\ flushed = tip
  /\ best = NoBlock /\ pindex = NoBlock
  /\ synced = (tip = NoBlock)
  /\ pc = IF synced THEN "done" ELSE "top"
  /\ queue = <<>> /\ handling = NoBlock
  /\ locator = NoBlock /\ written = {}
  /\ reader = Reader("idle", NoBlock)
  /\ fatal = FALSE
  /\ moves = 0 /\ crashes = 0 /\ failures = 0
-----------------------------------------------------------------------------
(* The chain: ActivateBestChain, InvalidateBlock and FlushStateToDisk. *)

\* The blocks to connect to get from t to b, in order.
ToConnect(t, b) ==
  LET h == HeightOf(FindFork(t, b))
  IN  [i \in 1..(Height[b] - h) |-> GetAncestor(b, h + i)]

\* The steps of a walk from t to b, as pairs <<tip before, tip after>>.
Walk(t, b) ==
  LET f == FindFork(t, b)
  IN  {<<x, Prev(x)>> : x \in UpTo(t) \ UpTo(f)}
      \cup {<<Prev(x), x>> : x \in UpTo(b) \ UpTo(f)}

\* A step of ActivateBestChain to a block with more work.  DisconnectTip and
\* ConnectTip may flush before they move m_chain's tip: the event names the tip
\* before, and is queued ahead of the BlockConnected of the same step.  The
\* coins cache is not at its limit during the very first activation.
ActivateBestChain(b) ==
  /\ moves < MaxMoves
  /\ HeightOf(b) > HeightOf(tip)
  /\ moves' = moves + 1
  /\ tip' = b
  /\ LET news == [i \in DOMAIN ToConnect(tip, b) |-> Connected(ToConnect(tip, b)[i])]
     IN  \/ queue' = queue \o news /\ UNCHANGED flushed
         \/ /\ tip # NoBlock
            /\ \E s \in Walk(tip, b) :
                 queue' = Append(queue, Flushed(s[1])) \o news /\ flushed' = s[2]
  /\ UNCHANGED <<handling, best, synced, syncVars, locator, written, reader, fatal, crashes, failures>>

\* InvalidateBlock disconnects the tip; no event says so to an index.  Its
\* DisconnectTip may flush too.
InvalidateBlock ==
  /\ moves < MaxMoves
  /\ tip \notin {NoBlock, Genesis}
  /\ moves' = moves + 1
  /\ tip' = Parent[tip]
  /\ \/ UNCHANGED <<flushed, queue>>
     \/ flushed' = Parent[tip] /\ queue' = Append(queue, Flushed(tip))
  /\ UNCHANGED <<handling, best, synced, syncVars, locator, written, reader, fatal, crashes, failures>>

FlushStateToDisk ==
  /\ tip # flushed
  /\ tip # NoBlock
  /\ flushed' = tip
  /\ queue' = Append(queue, Flushed(tip))
  /\ UNCHANGED <<tip, moves, handling, best, synced, syncVars, locator, written, reader, fatal, crashes, failures>>
-----------------------------------------------------------------------------
(* Commit and Rewind. *)

\* Commit writes b as the locator, nothing when no block is indexed yet, or it
\* fails and the failure is ignored.
Commit(b) ==
  \/ locator' = (IF b = NoBlock THEN locator ELSE b) /\ UNCHANGED failures
  \/ failures < MaxFailures /\ failures' = failures + 1 /\ UNCHANGED locator

RewindSucceeds(b) ==
  /\ best' = b /\ locator' = b
  /\ UNCHANGED <<fatal, failures>>

\* A Rewind whose Commit fails reverts m_best_block_index; the caller calls
\* FatalError.
RewindFails ==
  /\ failures < MaxFailures
  /\ failures' = failures + 1
  /\ fatal' = TRUE
  /\ UNCHANGED <<best, locator>>
-----------------------------------------------------------------------------
(* ThreadSync. *)

NextSyncBlock ==
  IF pindex = NoBlock THEN (IF tip = NoBlock THEN NoBlock ELSE Genesis)
  ELSE IF pindex \in UpTo(tip) THEN ChainNext(pindex, tip)
  ELSE ChainNext(FindFork(pindex, tip), tip)

\* Nothing follows on the chain: the index is in sync.
SyncDone ==
  /\ pc = "top"
  /\ NextSyncBlock = NoBlock
  /\ best' = pindex /\ synced' = TRUE
  /\ Commit(pindex)
  /\ pc' = "done"
  /\ UNCHANGED <<chainVars, queue, handling, pindex, written, reader, fatal, crashes>>

\* The next block is taken.  When the locator is due it is committed here,
\* before the block is written.
SyncAdvance ==
  /\ pc = "top"
  /\ NextSyncBlock # NoBlock
  /\ Prev(NextSyncBlock) = pindex
  /\ pindex' = NextSyncBlock /\ pc' = "write"
  /\ \/ UNCHANGED <<best, locator, failures>>
     \/ best' = NextSyncBlock /\ Commit(NextSyncBlock)
  /\ UNCHANGED <<chainVars, queue, handling, synced, written, reader, fatal, crashes>>

\* The chain left pindex behind: Rewind first, and then the commit of a locator
\* that is due, which may fail.
SyncRewind ==
  /\ pc = "top"
  /\ NextSyncBlock # NoBlock
  /\ Prev(NextSyncBlock) # pindex
  /\ pindex = best
  /\ \/ /\ \/ RewindSucceeds(Prev(NextSyncBlock))
           \/ RewindSucceeds(NextSyncBlock)
           \/ /\ failures < MaxFailures /\ failures' = failures + 1
              /\ best' = NextSyncBlock /\ locator' = Prev(NextSyncBlock)
              /\ UNCHANGED fatal
        /\ pindex' = NextSyncBlock /\ pc' = "write"
     \/ /\ RewindFails
        /\ pc' = "done" /\ UNCHANGED pindex
  /\ UNCHANGED <<chainVars, queue, handling, synced, written, reader, crashes>>

\* The sync thread has named as best, and committed, a block not yet written.
Exposed == pc = "write" /\ best = pindex

\* ReadBlockFromDisk and WriteBlock; when one fails, FatalError ends the thread.
SyncWrite ==
  /\ pc = "write"
  /\ \/ /\ written' = written \cup {pindex}
        /\ pc' = "top"
        /\ UNCHANGED <<fatal, failures>>
     \/ /\ failures < MaxFailures /\ failures' = failures + 1
        /\ Exposed => LocatorLeads
        /\ fatal' = TRUE
        /\ pc' = "done" /\ UNCHANGED written
  /\ UNCHANGED <<chainVars, queue, handling, best, synced, pindex, locator, reader, crashes>>
-----------------------------------------------------------------------------
(* The events, one at a time. *)

Deliver(type) ==
  /\ handling = NoBlock
  /\ queue # <<>>
  /\ Head(queue).type = type
  /\ queue' = Tail(queue)

\* Mutant: a block that does not build on m_best_block_index rewinds nothing.
FaultConnectable(b) == best = NoBlock \/ best = Prev(b)

\* The block builds on m_best_block_index or on an ancestor of it.
Connectable(b) == IF best = NoBlock THEN b = Genesis ELSE Prev(b) \in UpTo(best)

\* BlockConnected up to WriteBlock: ignored while the sync thread is at work
\* and when the block is of a branch the sync thread never saw; a first block
\* other than genesis is a FatalError.
BlockConnected ==
  /\ Deliver("BlockConnected")
  /\ LET b == Head(queue).block
     IN  \/ /\ ~synced \/ ~Connectable(b)
            /\ fatal' = (fatal \/ (synced /\ best = NoBlock))
            /\ UNCHANGED <<handling, best, locator, failures>>
         \/ /\ synced /\ Connectable(b) /\ best = Prev(b)
            /\ handling' = b
            /\ UNCHANGED <<best, locator, fatal, failures>>
         \/ /\ synced /\ Connectable(b) /\ best # Prev(b)
            /\ \/ RewindSucceeds(Prev(b)) /\ handling' = b
               \/ RewindFails /\ UNCHANGED handling
  /\ UNCHANGED <<chainVars, synced, syncVars, written, reader, crashes>>

\* Mutant: m_best_block_index moves whether or not the block was written.
FaultWriteBlock ==
  /\ handling # NoBlock
  /\ handling' = NoBlock
  /\ best' = handling
  /\ \/ written' = written \cup {handling} /\ UNCHANGED <<fatal, failures>>
     \/ /\ failures < MaxFailures /\ failures' = failures + 1
        /\ fatal' = TRUE
        /\ UNCHANGED written
  /\ UNCHANGED <<chainVars, queue, synced, syncVars, locator, reader, crashes>>

\* WriteBlock, then m_best_block_index moves; or WriteBlock fails.
WriteBlock ==
  /\ handling # NoBlock
  /\ handling' = NoBlock
  /\ \/ /\ written' = written \cup {handling}
        /\ best' = handling
        /\ UNCHANGED <<fatal, failures>>
     \/ /\ failures < MaxFailures /\ failures' = failures + 1
        /\ fatal' = TRUE
        /\ UNCHANGED <<written, best>>
  /\ UNCHANGED <<chainVars, queue, synced, syncVars, locator, reader, crashes>>

\* ChainStateFlushed commits unless its locator is not on the index's chain.
ChainStateFlushed ==
  /\ Deliver("ChainStateFlushed")
  /\ IF synced /\ Head(queue).block \in UpTo(best)
     THEN Commit(best)
     ELSE UNCHANGED <<locator, failures>>
  /\ UNCHANGED <<chainVars, handling, best, synced, syncVars, written, reader, fatal, crashes>>
-----------------------------------------------------------------------------
(* BlockUntilSyncedToCurrentChain, called by RPC once it is out of warm-up and
   until a shutdown interrupts it. *)

\* Mutant: caught up when the tip is at most as high as the index.
FaultCaughtUp == HeightOf(tip) <= HeightOf(best)

CaughtUp == tip \in UpTo(best)

ReaderCalls ==
  /\ reader.state = "idle"
  /\ ~fatal /\ best # NoBlock
  /\ synced
  /\ IF CaughtUp
     THEN reader' = Reader("returned", tip) /\ UNCHANGED queue
     ELSE reader' = Reader("waiting", tip) /\ queue' = Append(queue, Promise)
  /\ UNCHANGED <<chainVars, handling, best, synced, syncVars, locator, written, fatal, crashes, failures>>

PromiseSet ==
  /\ Deliver("Promise")
  /\ reader' = [reader EXCEPT !.state = "returned"]
  /\ UNCHANGED <<chainVars, handling, best, synced, syncVars, locator, written, fatal, crashes, failures>>

ReaderLeaves ==
  /\ reader.state = "returned"
  /\ reader' = Reader("idle", NoBlock)
  /\ UNCHANGED <<chainVars, queue, handling, best, synced, syncVars, locator, written, fatal, crashes, failures>>
-----------------------------------------------------------------------------
(* Restarts. *)

\* The node comes up on the flushed chain, with what the database holds.
Reload(l, t) ==
  /\ StartIndex(l, t)
  /\ tip' = t /\ flushed' = t /\ locator' = l
  /\ queue' = <<>> /\ handling' = NoBlock
  /\ reader' = Reader("idle", NoBlock)
  /\ fatal' = FALSE
  /\ UNCHANGED <<moves, written, failures>>

Crash ==
  /\ crashes < MaxCrashes
  /\ Exposed => LocatorLeads
  /\ crashes' = crashes + 1
  /\ Reload(locator, flushed)

\* assert(current_tip == m_best_block_index) fails in Rewind.
SyncAborts ==
  /\ pc = "top"
  /\ NextSyncBlock # NoBlock
  /\ Prev(NextSyncBlock) # pindex
  /\ pindex # best
  /\ Reload(locator, flushed)
  /\ UNCHANGED crashes

\* Interrupt, Shutdown and Start: an interrupted sync thread commits where it
\* is; Shutdown drains the queue, the last ChainStateFlushed included.
CleanRestart ==
  /\ crashes < MaxCrashes \/ fatal
  /\ crashes' = IF fatal THEN crashes ELSE crashes + 1
  /\ pc # "write" /\ queue = <<>> /\ handling = NoBlock
  /\ LET reached == IF pc = "top" THEN pindex ELSE best
         commits == pc = "top" \/ (synced /\ tip \in UpTo(best))
     IN  Reload(IF commits /\ reached # NoBlock THEN reached ELSE locator, tip)
-----------------------------------------------------------------------------
Sync == SyncDone \/ SyncAdvance \/ SyncRewind \/ SyncWrite \/ SyncAborts
Handle == BlockConnected \/ WriteBlock \/ ChainStateFlushed \/ PromiseSet

Next ==
  \/ \E b \in Block : ActivateBestChain(b)
  \/ InvalidateBlock \/ FlushStateToDisk
  \/ SyncDone \/ SyncAdvance \/ SyncRewind \/ SyncWrite \/ SyncAborts
  \/ BlockConnected \/ WriteBlock \/ ChainStateFlushed \/ PromiseSet
  \/ ReaderCalls \/ ReaderLeaves
  \/ Crash \/ CleanRestart

\* The sync thread and the scheduler's thread keep running; after FatalError
\* the node shuts down and is started again.
Fairness ==
  /\ WF_vars(Sync)
  /\ WF_vars(Handle)
  /\ WF_vars(fatal /\ CleanRestart)

Spec == Init /\ [][Next]_vars /\ Fairness
-----------------------------------------------------------------------------
(* Properties. *)

(* No hole: every block up to the one the index says it is in sync with, in
   memory or on disk, is in the index database; only the sync thread is ahead,
   by the block it is about to write. *)
NothingSkipped ==
  UpTo(best) \cup UpTo(locator) \subseteq
    written \cup (IF pc = "write" THEN {pindex} ELSE {})

(* When BlockUntilSyncedToCurrentChain returns true, the index has every block
   of the chain there was when it was called, reorganisations and a backlog of
   events of a stale branch included. *)
ReadersSeeTip == reader.state = "returned" /\ ~fatal => UpTo(reader.tip) \subseteq written

(* Once the chain rests the index covers it for good, across reorganisations,
   failed commits, crashes and restarts. *)
CatchesUp == <>[](synced /\ tip \in {NoBlock} \cup UpTo(best))
=============================================================================
