---------------------------- MODULE TxDownload ----------------------------
(***************************************************************************)
(* How PeerManagerImpl (net_processing.cpp) downloads transactions: the    *)
(* request tracker and the orphanage as the message handlers, the send     *)
(* loop, disconnections and the block callbacks drive them.                *)
(*                                                                         *)
(* Handlers run under cs_main and g_cs_orphans, so each is one step; n is  *)
(* what they change.  Blocks are connected by another thread, and their    *)
(* callbacks run later on the scheduler's: PeerManagerImpl::BlockConnected *)
(* takes three locks in turn, so it is three steps.                        *)
(***************************************************************************)
EXTENDS TxRequest, TxOrphanage

CONSTANTS
    Base,               \* the outputs confirmed before the model starts
    Bad,                \* transactions that are invalid once their inputs are known
    Preferred,          \* peers with fPreferredDownload
    WtxidRelay,         \* peers that announce by wtxid
    MaxAnnouncements,   \* MAX_PEER_TX_ANNOUNCEMENTS
    MaxInFlight,        \* MAX_PEER_TX_REQUEST_IN_FLIGHT
    Interval,           \* GETDATA_TX_INTERVAL, in ticks
    MaxOrphans,         \* -maxorphantx
    MaxBlockTxs,        \* bound on the transactions of a block
    MaxInputs           \* bound on the INV and TX messages, plus twice the
                        \* blocks connected and the setbacks of the clock

ASSUME DownloadAssumption ==
    /\ Base \notin Tx
    /\ Inputs \in [Tx -> SUBSET ((Tx \cup {Base}) \X Nat)]
    /\ {MaxAnnouncements, MaxInFlight, Interval, MaxOrphans, MaxBlockTxs, MaxInputs} \subseteq Nat

VARIABLES
    n,          \* [trk, orph, pool, rejects, work]: tracker, orphanage, the
                \* mempool's transactions, m_recent_rejects, m_orphan_work_set
    stale,      \* the tip is not hashRecentRejectsChainTip
    conn,       \* the connected peers (mapNodeState)
    blocks,     \* the transactions of each block connected, the tip last
    events,     \* block events not yet delivered, in order
    pc,         \* the step of BlockConnected that comes next
    confirmed,  \* m_recent_confirmed_transactions
    used        \* how much of MaxInputs is used up

vars == <<n, stale, conn, blocks, events, pc, confirmed, used>>

Partial(D, R) == UNION {[S -> R] : S \in SUBSET D}
Orphanage == [from : Partial(Tx, Peer), pos : Partial(Tx, 1 .. Cardinality(Tx)), list : Seq(Tx),
              prev : Partial(UNION {Inputs[t] : t \in Tx}, SUBSET Tx)]

Node == [trk : Tracker, orph : Orphanage, pool : SUBSET Tx, rejects : SUBSET Tx,
         work : [Peer -> SUBSET Tx]]

Event == [kind : {"connected", "disconnected"}, block : SUBSET Tx]

TypeOK ==
    /\ n \in Node
    /\ conn \subseteq Peer /\ confirmed \subseteq Tx
    /\ blocks \in Seq(SUBSET Tx) /\ events \in Seq(Event)
    /\ pc \in {"orphans", "filter", "requests"}
    /\ stale \in BOOLEAN /\ used \in Nat

Init ==
    /\ n = [trk |-> NoTracker, orph |-> NoOrphanage, pool |-> {}, rejects |-> {},
            work |-> [p \in Peer |-> {}]]
    /\ stale = FALSE
    /\ conn = Peer
    /\ blocks = << >> /\ events = << >>
    /\ pc = "orphans"
    /\ confirmed = {}
    /\ used = 0

Mined == UNION Range(blocks)
Spends(S, i) == \E t \in S : i \in Inputs[t]
Available(i, pool, mined) == i[1] \in pool \cup mined \cup {Base} /\ ~Spends(mined, i)

\* What ProcessTransaction may answer.  That a transaction is in the chain
\* already is noticed only while its outputs are in the coins cache.
ProcessTransaction(m, t) ==
    CASE \E i \in Inputs[t] : Spends(m.pool, i) -> {"invalid"}
      [] \E i \in Inputs[t] : ~Available(i, m.pool, Mined) /\ ~Spends(m.pool, i) ->
           IF t \in Mined THEN {"missing", "invalid"} ELSE {"missing"}
      [] OTHER -> IF t \in Bad THEN {"invalid"} ELSE {"valid"}

\* AlreadyHaveTx first forgets the rejects of another tip.
Refreshed == IF stale THEN [n EXCEPT !.rejects = {}] ELSE n

AlreadyHaveTx(m, t) ==
    HaveTx(m.orph, t) \/ t \in confirmed \cup m.rejects \cup m.pool

\* The delays are one tick each; parents of an orphan are asked for by txid.
AddTxAnnouncement(k, p, t, txid) ==
    LET One(cond) == IF cond THEN 1 ELSE 0
    IN  IF Count(k, p) >= MaxAnnouncements
          THEN k
          ELSE ReceivedInv(k, p, t, One(p \notin Preferred)
                                    + One(txid /\ WtxidRelay \cap conn # {})
                                    + One(CountInFlight(k, p) >= MaxInFlight))

\* The orphans of p's work set that are gone, or still lack a parent, and those
\* that ProcessTransaction may answer so of.
Skippable(m, p) == {t \in m.work[p] : HaveTx(m.orph, t) => "missing" \in ProcessTransaction(m, t)}
Tried(m, p, answer) == {t \in m.work[p] : HaveTx(m.orph, t) /\ answer \in ProcessTransaction(m, t)}

OrphanAccepted(m, p, t, skipped) ==
    [m EXCEPT !.pool = @ \cup {t}, !.orph = EraseTx(@, t),
              !.work[p] = (@ \ (skipped \cup {t})) \cup AddChildrenToWorkSet(m.orph, t)]

OrphanRejected(m, p, t, skipped) ==
    [m EXCEPT !.rejects = @ \cup {t}, !.orph = EraseTx(@, t),
              !.work[p] = @ \ (skipped \cup {t})]

\* The orphans of p's work set are tried, in the order of their hashes, until
\* one is accepted or rejected; those still without a parent are dropped from
\* it.  The hashes are arbitrary: any skippable ones may come before t.
ProcessOrphanTx(m, p) ==
    (IF m.work[p] = Skippable(m, p) THEN {[m EXCEPT !.work[p] = {}]} ELSE {})
    \cup {OrphanAccepted(m, p, t, S) : t \in Tried(m, p, "valid"), S \in SUBSET Skippable(m, p)}
    \cup {OrphanRejected(m, p, t, S) : t \in Tried(m, p, "invalid"), S \in SUBSET Skippable(m, p)}

-----------------------------------------------------------------------------
\* ProcessMessages leaves p's messages alone while its work set is not empty.
MayReceive(p) == p \in conn /\ n.work[p] = {} /\ used < MaxInputs

Received == /\ used' = used + 1
            /\ stale' = FALSE
            /\ UNCHANGED <<conn, blocks, events, pc, confirmed>>

Inv(p, t) ==
    /\ MayReceive(p)
    /\ n' = IF AlreadyHaveTx(Refreshed, t)
              THEN Refreshed
              ELSE [Refreshed EXCEPT !.trk = AddTxAnnouncement(@, p, t, p \notin WtxidRelay)]
    /\ Received

\* Accepted: its children are put in p's work set, and the first one is tried.
TxAccepted(m, p, t) ==
    ProcessOrphanTx([m EXCEPT !.trk = ForgetTxHash(@, t), !.pool = @ \cup {t},
                              !.work[p] = @ \cup AddChildrenToWorkSet(m.orph, t)], p)

\* Parents that are missing are asked for, the transaction kept as an orphan.
TxMissing(m, p, t) ==
    LET parents == {i[1] : i \in Inputs[t]} \ {Base}
        wanted == {q \in parents : ~AlreadyHaveTx(m, q)}
        asked == FoldSet(LAMBDA q, acc : AddTxAnnouncement(acc, p, q, TRUE), m.trk, wanted)
    IN  IF parents \cap m.rejects # {}
          THEN {[m EXCEPT !.rejects = @ \cup {t}, !.trk = ForgetTxHash(@, t)]}
          ELSE {[m EXCEPT !.trk = ForgetTxHash(asked, t), !.orph = o] :
                  o \in UNION {LimitOrphans(AddTx(m.orph, t, p), S, MaxOrphans) :
                                 S \in SUBSET DOMAIN m.orph.from}}

TxInvalid(m, t) == [m EXCEPT !.rejects = @ \cup {t}, !.trk = ForgetTxHash(@, t)]

TxMessage(p, t) ==
    /\ MayReceive(p)
    /\ LET m == [Refreshed EXCEPT !.trk = ReceivedResponse(@, p, t)]
       IN  IF AlreadyHaveTx(m, t)
             THEN n' = m
             ELSE \E answer \in ProcessTransaction(m, t) :
                    \/ answer = "valid" /\ n' \in TxAccepted(m, p, t)
                    \/ answer = "missing" /\ n' \in TxMissing(m, p, t)
                    \/ answer = "invalid" /\ n' = TxInvalid(m, t)
    /\ Received

\* A NOTFOUND for what p has announced (any other one changes nothing).
NotFound(p, t) ==
    /\ p \in conn /\ n.work[p] = {}
    /\ n.trk.ann[t][p].st \in Open
    /\ n' = [n EXCEPT !.trk = ReceivedResponse(@, p, t)]
    /\ UNCHANGED <<stale, conn, blocks, events, pc, confirmed, used>>

\* ProcessMessages with orphans left to reconsider.
ProcessMessages(p) ==
    /\ p \in conn
    /\ n.work[p] # {}
    /\ n' \in ProcessOrphanTx(n, p)
    /\ UNCHANGED <<stale, conn, blocks, events, pc, confirmed, used>>

\* The getdata part of SendMessages: what p should be asked for now.
SendMessages(p) ==
    LET timed == SetTimePoint(n.trk)
        due == Requestable(timed, p)
        asked == [t \in Tx |-> IF AlreadyHaveTx(Refreshed, t)
                                THEN NoRow ELSE RequestedTx(timed.ann[t], p, Interval)]
    IN  /\ p \in conn
        /\ UNCHANGED <<conn, blocks, events, pc, confirmed, used>>
        /\ stale' = (stale /\ due = {})
        /\ n' = [(IF due = {} THEN n ELSE Refreshed) EXCEPT !.trk = SetAll(timed, due, asked)]

\* A node id is never used again, so p stays away.
FinalizeNode(p) ==
    /\ p \in conn
    /\ n' = [n EXCEPT !.orph = EraseForPeer(@, p), !.trk = DisconnectedPeer(@, p),
                      !.work[p] = {}]
    /\ conn' = conn \ {p}
    /\ UNCHANGED <<stale, blocks, events, pc, confirmed, used>>

-----------------------------------------------------------------------------
\* ConnectTip on the validation thread: transactions of the block, and those
\* that conflict with it, leave the mempool; the callback is queued.
ConnectTip(block) ==
    LET conflicts == {t \in n.pool \ block : \E i \in Inputs[t] : Spends(block, i)}
        gone == {t \in n.pool \ block : \E c \in conflicts : t = c \/ \E i \in Inputs[t] : i[1] = c}
    IN  /\ used + 1 < MaxInputs
        /\ block # {} /\ block \cap Bad = {} /\ Cardinality(block) <= MaxBlockTxs
        /\ \A t \in block : \A i \in Inputs[t] : Available(i, block, Mined)
        /\ \A t, u \in block : t # u => Inputs[t] \cap Inputs[u] = {}
        /\ n' = [n EXCEPT !.pool = @ \ (block \cup gone)]
        /\ blocks' = Append(blocks, block)
        /\ events' = Append(events, [kind |-> "connected", block |-> block])
        /\ used' = used + 2
        /\ stale' = TRUE
        /\ UNCHANGED <<conn, pc, confirmed>>

\* DisconnectTip, and the return of the block's transactions to the mempool
\* before cs_main is released.
DisconnectTip ==
    /\ blocks # << >>
    /\ LET tip == blocks[Len(blocks)]
       IN  /\ n' = [n EXCEPT !.pool = @ \cup tip]
           /\ events' = Append(events, [kind |-> "disconnected", block |-> tip])
    /\ blocks' = SubSeq(blocks, 1, Len(blocks) - 1)
    /\ stale' = TRUE
    /\ UNCHANGED <<conn, pc, confirmed, used>>

\* Mutant: the requests are forgotten before the filter knows the block.
FaultBlockConnected ==
    /\ events # << >> /\ Head(events).kind = "connected"
    /\ \/ /\ pc = "orphans" /\ pc' = "filter"
          /\ n' = [n EXCEPT !.trk = ForgetAll(@, Head(events).block)]
          /\ UNCHANGED <<confirmed, events>>
       \/ /\ pc = "filter" /\ pc' = "requests"
          /\ confirmed' = confirmed \cup Head(events).block
          /\ UNCHANGED <<n, events>>
       \/ /\ pc = "requests" /\ pc' = "orphans"
          /\ n' = [n EXCEPT !.orph = EraseForBlock(@, Head(events).block)]
          /\ events' = Tail(events)
          /\ UNCHANGED confirmed
    /\ UNCHANGED <<stale, conn, blocks, used>>

\* g_cs_orphans, then m_recent_confirmed_transactions_mutex, then cs_main.
BlockConnected ==
    /\ events # << >> /\ Head(events).kind = "connected"
    /\ \/ /\ pc = "orphans" /\ pc' = "filter"
          /\ n' = [n EXCEPT !.orph = EraseForBlock(@, Head(events).block)]
          /\ UNCHANGED <<confirmed, events>>
       \/ /\ pc = "filter" /\ pc' = "requests"
          /\ confirmed' = confirmed \cup Head(events).block
          /\ UNCHANGED <<n, events>>
       \/ /\ pc = "requests" /\ pc' = "orphans"
          /\ n' = [n EXCEPT !.trk = ForgetAll(@, Head(events).block)]
          /\ events' = Tail(events)
          /\ UNCHANGED confirmed
    /\ UNCHANGED <<stale, conn, blocks, used>>

BlockDisconnected ==
    /\ events # << >> /\ Head(events).kind = "disconnected"
    /\ confirmed' = {}
    /\ events' = Tail(events)
    /\ UNCHANGED <<n, stale, conn, blocks, pc, used>>

-----------------------------------------------------------------------------
\* The clock, which nobody reads until the next SendMessages.
TimeMatters == \E t \in Tx : Ahead(n.trk.ann[t], Open) # {}

Tick ==
    /\ TimeMatters
    /\ UNCHANGED <<stale, conn, blocks, events, pc, confirmed, used>>
    /\ n' = [n EXCEPT !.trk = Forward(@)]

Setback(again) ==
    /\ used + 1 < MaxInputs
    /\ \A a \in again : a[2] \in Passed(n.trk.ann[a[1]], Open)
    /\ n' = [n EXCEPT !.trk = Backward(@, again)]
    /\ used' = used + 2
    /\ UNCHANGED <<stale, conn, blocks, events, pc, confirmed>>

Next ==
    \/ \E p \in Peer, t \in Tx : Inv(p, t) \/ TxMessage(p, t) \/ NotFound(p, t)
    \/ \E p \in Peer : ProcessMessages(p) \/ SendMessages(p) \/ FinalizeNode(p)
    \/ \E block \in SUBSET Tx : ConnectTip(block)
    \/ DisconnectTip \/ BlockConnected \/ BlockDisconnected
    \/ Tick
    \/ \E again \in SUBSET (Tx \X Peer) : Setback(again)

\* SendMessages(p) would change something; once it has run it would not.
Pending(p) ==
    /\ p \in conn
    /\ Requestable(n.trk, p) # {} \/ SetTimePoint(n.trk) # n.trk

\* ThreadMessageHandler serves every connected peer again and again, and time
\* passes: weak fairness of SendMessages(p) and of Tick, with what enables each
\* step spelled out.
Fairness ==
    /\ <>[]TimeMatters => []<><<Tick>>_n
    /\ \A p \in Peer : []<>~Pending(p)

Spec == Init /\ [][Next]_vars /\ Fairness

-----------------------------------------------------------------------------
\* What the announcements of a transaction should be: at most one is selected,
\* one is as soon as a candidate is ready, none that is ready ranks above the
\* CANDIDATE_BEST, and one all of whose announcers were tried is forgotten.
WellSelected(r, t) ==
    /\ \A p, q \in In(r, Selected) : p = q
    /\ In(r, {"ready"}) # {} => In(r, Selected) # {}
    /\ \A p \in In(r, {"best"}), q \in In(r, {"ready"}) : Rank[t][p] > Rank[t][q]
    /\ In(r, {"completed"}) # {} => In(r, Open) # {}

\* RecomputePeerInfo: what m_peerinfo should hold.
Recounted(ann, p) ==
    LET Number(S) == Cardinality({t \in Tx : ann[t][p].st \in S})
    IN  [total     |-> Number(Open \cup {"completed"}),
         requested |-> Number({"requested"}),
         completed |-> Number({"completed"})]

\* The tracker's SanityCheck after every event, through timeouts, setbacks of
\* the clock and disconnections; and a peer that left is in neither structure,
\* which FinalizeNode asserts when the last one leaves.
SanityCheck ==
    /\ \A t \in Tx : WellSelected(n.trk.ann[t], t)
    /\ \A p \in Peer : n.trk.info[p] = Recounted(n.trk.ann, p)
    /\ \A p \in Peer \ conn :
        /\ n.trk.info[p] = NoInfo
        /\ \A t \in DOMAIN n.orph.from : n.orph.from[t] # p

\* The orphanage's maps agree: a list position finds its orphan (the assert of
\* EraseTx), the outpoint index holds exactly the inputs of the orphans, and
\* no more than -maxorphantx are kept.
OrphansExact ==
    LET o == n.orph
    IN  /\ DOMAIN o.pos = DOMAIN o.from /\ Len(o.list) = Cardinality(DOMAIN o.from)
        /\ \A t \in DOMAIN o.from : o.pos[t] \in DOMAIN o.list /\ o.list[o.pos[t]] = t
        /\ DOMAIN o.prev = UNION {Inputs[t] : t \in DOMAIN o.from}
        /\ \A i \in DOMAIN o.prev : o.prev[i] = {t \in DOMAIN o.from : i \in Inputs[t]}
        /\ Len(o.list) <= MaxOrphans

\* An announcement of a transaction that AlreadyHaveTx knows, which no block
\* callback still to run will drop.
Superfluous(t) ==
    /\ AlreadyHaveTx(Refreshed, t)
    /\ Tracked(n.trk, t) # {}
    /\ \A e \in Range(events) : e.kind = "connected" => t \notin e.block

\* What the node has is not downloaded: SendMessages calls its own test of
\* that "belt-and-suspenders, as this should already be called whenever a
\* transaction becomes AlreadyHaveTx()".  True of every step but the return
\* of a disconnected block's transactions to the mempool.
NoneSuperfluous ==
    [][Len(blocks') >= Len(blocks) => \A t \in Tx : Superfluous(t)' => Superfluous(t)]_vars

\* An orphan whose parents are all there is due for another try.
Stranded(t) ==
    /\ HaveTx(n.orph, t)
    /\ \A i \in Inputs[t] : Available(i, n.pool, Mined)
    /\ \A p \in conn : t \notin n.work[p]

\* No message handler leaves an orphan behind when its last parent comes in:
\* it is in the work set of a connected peer.  (A disconnection may drop the
\* work set, and a block brings parents without looking for orphans.)
NoneStranded ==
    [][conn' = conn /\ blocks' = blocks =>
         \A t \in Tx : Stranded(t)' => Stranded(t)]_vars

\* Whatever peers do, a tracked transaction does not stay so for ever: it is
\* received, or every announcer is asked in turn until the last one times out.
AllResolved == \A t \in Tx : Tracked(n.trk, t) # {} ~> Tracked(n.trk, t) = {}
=============================================================================
