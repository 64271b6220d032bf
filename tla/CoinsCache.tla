------------------------------ MODULE CoinsCache ------------------------------
(***************************************************************************)
(* CCoinsViewCache (coins.cpp): the coins database, the cache CoinsTip()   *)
(* over it, and the short-lived cache ("view") that ConnectTip and         *)
(* DisconnectTip put over CoinsTip() for one block.  A cache entry carries *)
(* the DIRTY and FRESH flags that decide what a flush writes, erases or    *)
(* skips.  The layers are only correct together: an entry may be dropped   *)
(* or left out of a flush only when the layer below already answers the    *)
(* same thing.                                                             *)
(*                                                                         *)
(* Callers are modelled by what they pass.  possible_overwrite is FALSE    *)
(* for the outputs of an ordinary transaction of a block being connected   *)
(* (AddNew: such an outpoint has no unspent coin, its txid is new), TRUE   *)
(* for a coinbase (AddCoinbase), and "is there a coin?" when the caller    *)
(* looks first (AddChecked: ApplyTxInUndo, RollforwardBlock).              *)
(***************************************************************************)
EXTENDS Integers, FiniteSets, Functions

CONSTANTS
    Outpoint,       \* COutPoint
    Coin,           \* unspent coins AddCoin stores
    NoCoin,         \* a spent (cleared) Coin
    NoEntry,        \* no entry for an outpoint in cacheCoins
    Hash,           \* block hashes
    NullHash,       \* the null hash
    Usage           \* Coin::DynamicMemoryUsage of an unspent coin

ASSUME ConstantsAssumption ==
    /\ NoCoin \notin Coin
    /\ NullHash \notin Hash
    /\ NoEntry \notin [coin : Coin \cup {NoCoin}, flags : SUBSET {"DIRTY", "FRESH"}]
    /\ Usage \in [Coin -> Nat]

\* A COutPoint is a 256-bit txid and a 32-bit index.
ASSUME OutpointsFinite == IsFiniteSet(Outpoint)

VARIABLES
    db,             \* coins in the database
    dbBest,         \* its best block
    tip,            \* cacheCoins of CoinsTip()
    tipBest,        \* its hashBlock, null until first read or set
    tipUsage,       \* its cachedCoinsUsage
    view,           \* cacheCoins of the view over CoinsTip()
    viewBest,       \* its hashBlock
    viewUsage,      \* its cachedCoinsUsage
    open,           \* the view exists
    logicError      \* a std::logic_error was thrown

tipVars == <<tip, tipBest, tipUsage>>
viewVars == <<view, viewBest, viewUsage>>
vars == <<db, dbBest, tipVars, viewVars, open, logicError>>

Entry == [coin : Coin \cup {NoCoin}, flags : SUBSET {"DIRTY", "FRESH"}]

Empty == [o \in Outpoint |-> NoEntry]

\* The database, the two caches and their best blocks have the types of the C++
\* members; a best block that was read or written is never null in the database.
TypeOK ==
    /\ db \in [Outpoint -> Coin \cup {NoCoin}]
    /\ dbBest \in Hash
    /\ tip \in [Outpoint -> Entry \cup {NoEntry}]
    /\ tipBest \in Hash \cup {NullHash}
    /\ view \in [Outpoint -> Entry \cup {NoEntry}]
    /\ viewBest \in Hash \cup {NullHash}
    /\ open \in BOOLEAN
    /\ logicError \in BOOLEAN

\* What a cache with entry e answers over a base that answers c.
Answer(e, c) == IF e = NoEntry THEN c ELSE e.coin

Through(cache, base) == [o \in Outpoint |-> Answer(cache[o], base[o])]

TipCoins == Through(tip, db)

TopCoins == IF open THEN Through(view, TipCoins) ELSE TipCoins

Bytes(e) == IF e = NoEntry \/ e.coin = NoCoin THEN 0 ELSE Usage[e.coin]

Init ==
    /\ db \in [Outpoint -> Coin \cup {NoCoin}]
    /\ dbBest \in Hash
    /\ tip = Empty
    /\ tipBest = NullHash
    /\ tipUsage = 0
    /\ view = Empty
    /\ viewBest = NullHash
    /\ viewUsage = 0
    /\ open = FALSE
    /\ logicError = FALSE
-------------------------------------------------------------------------------
(* Entries *)

\* The seeded faults a run must notice are named Fault...; none is used by Next.
FaultFetchEntry(e, c) ==
    IF e = NoEntry /\ c # NoCoin
    THEN [coin |-> c, flags |-> {"FRESH"}]
    ELSE e

\* FetchCoin: the base answers only with an unspent coin (GetCoin), so a
\* fetched entry is never spent and never FRESH.
FetchEntry(e, c) ==
    IF e = NoEntry /\ c # NoCoin
    THEN [coin |-> c, flags |-> {}]
    ELSE e

Flags(e) == IF e = NoEntry THEN {} ELSE e.flags

\* A coin re-added over a spent, unflushed one is marked FRESH.
FaultAddedEntry(e, c, overwrite) ==
    [coin  |-> c,
     flags |-> Flags(e) \cup {"DIRTY"} \cup (IF overwrite THEN {} ELSE {"FRESH"})]

AddedEntry(e, c, overwrite) ==
    LET fresh == ~overwrite /\ "DIRTY" \notin Flags(e)
    IN  [coin  |-> c,
         flags |-> Flags(e) \cup {"DIRTY"} \cup (IF fresh THEN {"FRESH"} ELSE {})]

SpentEntry(e) ==
    IF "FRESH" \in Flags(e) \/ e = NoEntry THEN NoEntry
    ELSE [coin |-> NoCoin, flags |-> e.flags \cup {"DIRTY"}]

\* FRESH is passed on to an entry the parent already has.
FaultOverwritten(us, it) ==
    IF "FRESH" \in us.flags /\ it.coin = NoCoin THEN NoEntry
    ELSE [coin |-> it.coin, flags |-> us.flags \cup it.flags]

\* BatchWrite for one outpoint with a DIRTY entry it in the child: the parent's
\* entry if it had none, and if it had the entry us.
Inserted(it) ==
    IF "FRESH" \in it.flags /\ it.coin = NoCoin THEN NoEntry ELSE it

Overwritten(us, it) ==
    IF "FRESH" \in us.flags /\ it.coin = NoCoin THEN NoEntry
    ELSE [coin |-> it.coin, flags |-> us.flags \cup {"DIRTY"}]

MergedEntry(us, it) ==
    IF "DIRTY" \notin Flags(it) THEN us
    ELSE IF us = NoEntry THEN Inserted(it) ELSE Overwritten(us, it)

Misapplied(us, it) ==
    /\ {"DIRTY", "FRESH"} \subseteq Flags(it)
    /\ us # NoEntry
    /\ us.coin # NoCoin
-------------------------------------------------------------------------------
(* Operations of CCoinsViewCache *)

\* The coin replaced by an insertion is not subtracted.
FaultAccount(usage, old, new) == usage + Bytes(new)

\* cachedCoinsUsage when an entry changes.
Account(usage, old, new) == usage - Bytes(old) + Bytes(new)

\* The innermost cache's own entry for o, and the one FetchCoin(o) returns.
Own(o) == IF open THEN view[o] ELSE tip[o]

Fetched(o) == FetchEntry(Own(o), IF open THEN TipCoins[o] ELSE db[o])

\* CoinsTip() is asked, and fetches in turn, only on a miss of the view.
TipFetch(o) ==
    LET e == IF view[o] = NoEntry THEN FetchEntry(tip[o], db[o]) ELSE tip[o]
    IN  /\ tip' = [tip EXCEPT ![o] = e]
        /\ tipUsage' = Account(tipUsage, tip[o], e)

\* The innermost cache stores e for o, after a FetchCoin(o) if fetch.
Store(o, e, fetch) ==
    /\ IF open
       THEN /\ view' = [view EXCEPT ![o] = e]
            /\ viewUsage' = Account(viewUsage, view[o], e)
            /\ IF fetch THEN TipFetch(o) ELSE UNCHANGED <<tip, tipUsage>>
       ELSE /\ tip' = [tip EXCEPT ![o] = e]
            /\ tipUsage' = Account(tipUsage, tip[o], e)
            /\ UNCHANGED <<view, viewUsage>>
    /\ UNCHANGED <<db, dbBest, tipBest, viewBest, open>>

\* GetCoin, HaveCoin, AccessCoin and HaveInputs differ only in what they return.
AccessCoin(o) ==
    /\ Store(o, Fetched(o), TRUE)
    /\ UNCHANGED logicError

\* AddCoin with possible_overwrite = FALSE.  Unspendable and skipped
\* zero-value outputs return before anything is stored.
AddNew(o, c) ==
    /\ TopCoins[o] = NoCoin
    /\ Store(o, AddedEntry(Own(o), c, FALSE), FALSE)
    /\ logicError' = (logicError \/ (Own(o) # NoEntry /\ Own(o).coin # NoCoin))

AddCoinbase(o, c) ==
    /\ Store(o, AddedEntry(Own(o), c, TRUE), FALSE)
    /\ UNCHANGED logicError

\* AddCoin with possible_overwrite = HaveCoin(o).
AddChecked(o, c) ==
    /\ Store(o, AddedEntry(Fetched(o), c, TopCoins[o] # NoCoin), TRUE)
    /\ UNCHANGED logicError

SpendCoin(o) ==
    /\ Store(o, SpentEntry(Fetched(o)), TRUE)
    /\ UNCHANGED logicError

Uncache(o) ==
    /\ tip[o] # NoEntry
    /\ tip[o].flags = {}
    /\ tip' = [tip EXCEPT ![o] = NoEntry]
    /\ tipUsage' = Account(tipUsage, tip[o], NoEntry)
    /\ UNCHANGED <<db, dbBest, tipBest, viewVars, open, logicError>>

TipBestBlock == IF tipBest = NullHash THEN dbBest ELSE tipBest

TopBestBlock == IF open /\ viewBest # NullHash THEN viewBest ELSE TipBestBlock

\* GetBestBlock keeps what the base answered.
GetBestBlock ==
    /\ IF open /\ viewBest # NullHash THEN UNCHANGED tipBest
       ELSE tipBest' = TipBestBlock
    /\ viewBest' = IF open THEN TopBestBlock ELSE viewBest
    /\ UNCHANGED <<db, dbBest, tip, tipUsage, view, viewUsage, open, logicError>>

SetBestBlock(b) ==
    /\ IF open THEN viewBest' = b /\ UNCHANGED tipBest
               ELSE tipBest' = b /\ UNCHANGED viewBest
    /\ UNCHANGED <<db, dbBest, tip, tipUsage, view, viewUsage, open, logicError>>

\* CCoinsViewCache view(&CoinsTip());
OpenView ==
    /\ ~open
    /\ open' = TRUE
    /\ UNCHANGED <<db, dbBest, tipVars, viewVars, logicError>>

CloseView ==
    /\ open' = FALSE
    /\ view' = Empty
    /\ viewBest' = NullHash
    /\ viewUsage' = 0

\* view.Flush() into CoinsTip(), after which the view goes out of scope.  Every
\* caller has read or set the view's best block by then.
FlushView ==
    /\ open
    /\ viewBest # NullHash
    /\ logicError' = (logicError \/ \E o \in Outpoint : Misapplied(tip[o], view[o]))
    /\ tip' = [o \in Outpoint |-> MergedEntry(tip[o], view[o])]
    /\ tipUsage' = tipUsage + SumFunction(
            [o \in Outpoint |-> Account(0, tip[o], MergedEntry(tip[o], view[o]))])
    /\ tipBest' = viewBest
    /\ CloseView
    /\ UNCHANGED <<db, dbBest>>

\* The block failed to connect: the view goes out of scope unflushed.
DropView ==
    /\ open
    /\ CloseView
    /\ UNCHANGED <<db, dbBest, tipVars, logicError>>

\* CoinsTip().Flush() into the database: dirty entries are written, or erased
\* when spent (CCoinsViewDB::BatchWrite, here in one piece).
FlushTip ==
    /\ ~open
    /\ db' = [o \in Outpoint |->
                IF "DIRTY" \in Flags(tip[o]) THEN tip[o].coin ELSE db[o]]
    /\ dbBest' = TipBestBlock
    /\ tipBest' = TipBestBlock
    /\ tip' = Empty
    /\ tipUsage' = 0
    /\ UNCHANGED <<viewVars, open, logicError>>

Next ==
    \/ \E o \in Outpoint :
        \/ AccessCoin(o)
        \/ SpendCoin(o)
        \/ Uncache(o)
        \/ \E c \in Coin : AddNew(o, c) \/ AddCoinbase(o, c) \/ AddChecked(o, c)
    \/ GetBestBlock
    \/ \E b \in Hash : SetBestBlock(b)
    \/ OpenView
    \/ FlushView
    \/ DropView
    \/ FlushTip

Spec == Init /\ [][Next]_vars
-------------------------------------------------------------------------------
(* Properties *)

\* An entry's flags agree with what the layer below answers, c: an entry that is
\* not DIRTY repeats the base's unspent coin, so Uncache and a flush may drop it;
\* a FRESH entry is unspent, DIRTY and unknown to the base, so spending it may
\* erase it; a spent entry is DIRTY, so its spentness reaches the base.
EntrySound(e, c) ==
    e # NoEntry =>
        /\ "DIRTY" \notin e.flags => e.coin = c
        /\ "FRESH" \in e.flags => "DIRTY" \in e.flags /\ e.coin # NoCoin /\ c = NoCoin
        /\ e.coin = NoCoin => "DIRTY" \in e.flags

FlagsSound(cache, base) == \A o \in Outpoint : EntrySound(cache[o], base[o])

\* The flags of CoinsTip() are sound over the database and those of the block's
\* view over CoinsTip(), whatever sequence of adds, spends and flushes happened.
FlagsInvariant ==
    /\ FlagsSound(tip, db)
    /\ FlagsSound(view, TipCoins)
    /\ ~open => view = Empty /\ viewBest = NullHash

\* Neither std::logic_error of coins.cpp (an unspent coin overwritten by
\* AddCoin, or FRESH misapplied in BatchWrite) is ever thrown.
NoLogicError == ~logicError

\* cachedCoinsUsage, which decides when the cache is flushed, is exactly the
\* memory of the cached coins after any history of the entry-wise updates.
UsageExact ==
    /\ tipUsage = SumFunction([o \in Outpoint |-> Bytes(tip[o])])
    /\ viewUsage = SumFunction([o \in Outpoint |-> Bytes(view[o])])

\* The caches are transparent: with every layer read through the ones below it,
\* the operations of CCoinsViewCache are those of plain maps (CoinsLayers).
Layers == INSTANCE CoinsLayers WITH
    disk <- [coins |-> db, best |-> dbBest],
    tip  <- [coins |-> TipCoins, best |-> TipBestBlock],
    top  <- [coins |-> TopCoins, best |-> TopBestBlock]

Transparent == Layers!Spec
===============================================================================
