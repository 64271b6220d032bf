----------------------------- MODULE CoinsLayers -----------------------------
(***************************************************************************)
(* What the stack of coins views promises its callers (coins.h,            *)
(* CCoinsView): three maps from outpoints to coins.  The bottom one is the *)
(* coins database, the middle one what CChainState::CoinsTip() answers,    *)
(* the top one what the short-lived view that connects or disconnects one  *)
(* block answers.  A lower map changes only when the one above it is       *)
(* flushed, and then becomes equal to it.  Nothing here knows of caching.  *)
(***************************************************************************)
CONSTANTS
    Outpoint,       \* COutPoint
    Coin,           \* unspent coins
    NoCoin,         \* no coin: never existed, or spent
    Hash            \* block hashes

VARIABLES
    disk,           \* [coins, best] of the coins database
    tip,            \* [coins, best] of CoinsTip()
    top,            \* [coins, best] of the innermost view; tip when there is none
    open            \* a view on top of CoinsTip() exists

vars == <<disk, tip, top, open>>

Snapshot == [coins : [Outpoint -> Coin \cup {NoCoin}], best : Hash]

TypeOK ==
    /\ disk \in Snapshot
    /\ tip \in Snapshot
    /\ top \in Snapshot
    /\ open \in BOOLEAN

Init ==
    /\ disk \in Snapshot
    /\ tip = disk
    /\ top = disk
    /\ open = FALSE

Open ==
    /\ ~open
    /\ open' = TRUE
    /\ UNCHANGED <<disk, tip, top>>

\* An edit of the innermost view.  Without an open view that is CoinsTip().
Edit(s) ==
    /\ top' = s
    /\ tip' = IF open THEN tip ELSE s
    /\ UNCHANGED <<disk, open>>

Put(o, c) == Edit([coins |-> [top.coins EXCEPT ![o] = c], best |-> top.best])

SetBest(b) == Edit([coins |-> top.coins, best |-> b])

\* The view is written to the layer below it and goes away.
Commit ==
    /\ open
    /\ open' = FALSE
    /\ tip' = top
    /\ UNCHANGED <<disk, top>>

\* The view goes away unwritten.
Discard ==
    /\ open
    /\ open' = FALSE
    /\ top' = tip
    /\ UNCHANGED <<disk, tip>>

Sync ==
    /\ ~open
    /\ disk' = tip
    /\ UNCHANGED <<tip, top, open>>

Next ==
    \/ Open
    \/ \E o \in Outpoint, c \in Coin \cup {NoCoin} : Put(o, c)
    \/ \E b \in Hash : SetBest(b)
    \/ Commit
    \/ Discard
    \/ Sync

Spec == Init /\ [][Next]_vars
==============================================================================
