--------------------------- MODULE CoinsCacheProofs ---------------------------
(***************************************************************************)
(* For every set of outpoints, coins and blocks: the flags of the caches   *)
(* stay sound, no logic_error is thrown, the stack of caches implements    *)
(* the plain maps of CoinsLayers, and the usage counters are exact.  The   *)
(* argument is per outpoint (the four lemmas on entries) and then per      *)
(* layer.                                                                  *)
(*                                                                         *)
(* The constants of the block tree come with the shared lemmas and are not *)
(* used.                                                                   *)
(***************************************************************************)
EXTENDS CoinsCache, CommonProofs

Value == Coin \cup {NoCoin}

\* FetchCoin copies a coin up without changing what the cache answers.
LEMMA FetchLemma ==
    ASSUME NEW e \in Entry \cup {NoEntry}, NEW c \in Value, EntrySound(e, c)
    PROVE  /\ FetchEntry(e, c) \in Entry \cup {NoEntry}
           /\ EntrySound(FetchEntry(e, c), c)
           /\ Answer(FetchEntry(e, c), c) = Answer(e, c)
           /\ FetchEntry(e, c) = NoEntry => c = NoCoin
  BY ConstantsAssumption DEF ConstantsAssumption, Value, Entry, EntrySound, FetchEntry, Answer

\* AddCoin makes the cache answer the new coin; FRESH is set only when the base
\* has no coin.
LEMMA AddLemma ==
    ASSUME NEW e \in Entry \cup {NoEntry}, NEW c \in Value, EntrySound(e, c),
           NEW new \in Coin, NEW overwrite \in BOOLEAN,
           overwrite \/ Answer(e, c) = NoCoin
    PROVE  /\ AddedEntry(e, new, overwrite) \in Entry
           /\ EntrySound(AddedEntry(e, new, overwrite), c)
           /\ Answer(AddedEntry(e, new, overwrite), c) = new
  BY ConstantsAssumption DEF ConstantsAssumption, Value, Entry, EntrySound, AddedEntry, Flags, Answer

\* SpendCoin makes the cache answer "no coin", also when it erases the entry.
LEMMA SpendLemma ==
    ASSUME NEW e \in Entry \cup {NoEntry}, NEW c \in Value, EntrySound(e, c),
           e = NoEntry => c = NoCoin
    PROVE  /\ SpentEntry(e) \in Entry \cup {NoEntry}
           /\ EntrySound(SpentEntry(e), c)
           /\ Answer(SpentEntry(e), c) = NoCoin
  BY ConstantsAssumption DEF ConstantsAssumption, Value, Entry, EntrySound, SpentEntry, Flags, Answer

\* BatchWrite of a child entry makes the parent answer what the child answered,
\* and never meets a misapplied FRESH flag.
LEMMA MergeLemma ==
    ASSUME NEW us \in Entry \cup {NoEntry}, NEW it \in Entry \cup {NoEntry},
           NEW c \in Value, EntrySound(us, c), EntrySound(it, Answer(us, c))
    PROVE  /\ MergedEntry(us, it) \in Entry \cup {NoEntry}
           /\ EntrySound(MergedEntry(us, it), c)
           /\ Answer(MergedEntry(us, it), c) = Answer(it, Answer(us, c))
           /\ ~Misapplied(us, it)
  BY ConstantsAssumption
     DEF ConstantsAssumption, Value, Entry, EntrySound, Flags, MergedEntry, Inserted, Overwritten, Misapplied, Answer
-------------------------------------------------------------------------------
(* One layer *)

Cache == [Outpoint -> Entry \cup {NoEntry}]

Coins == [Outpoint -> Value]

\* Reading a cache through its base gives a total map of coins.
LEMMA ThroughType ==
    ASSUME NEW cache \in Cache, NEW base \in Coins
    PROVE  Through(cache, base) \in Coins
  BY ConstantsAssumption
     DEF ConstantsAssumption, Cache, Coins, Value, Entry, Through, Answer

\* An empty cache answers what its base answers, and has no flags to get wrong.
LEMMA EmptyLemma ==
    ASSUME NEW base \in Coins
    PROVE  /\ Empty \in Cache
           /\ FlagsSound(Empty, base)
           /\ Through(Empty, base) = base
  BY DEF Cache, Coins, Empty, FlagsSound, EntrySound, Through, Answer

\* Map new is map old with c for o.
Updated(new, old, o, c) ==
    \A p \in Outpoint : new[p] = IF p = o THEN c ELSE old[p]

\* Replacing one sound entry by another changes one answer.
LEMMA StoreLemma ==
    ASSUME NEW cache \in Cache, NEW base \in Coins, FlagsSound(cache, base),
           NEW o \in Outpoint, NEW e \in Entry \cup {NoEntry},
           EntrySound(e, base[o]), NEW new, new = [cache EXCEPT ![o] = e]
    PROVE  /\ new \in Cache
           /\ FlagsSound(new, base)
           /\ Updated(Through(new, base), Through(cache, base), o, Answer(e, base[o]))
  <1>1. new \in Cache
    BY DEF Cache
  <1>2. \A p \in Outpoint : new[p] = IF p = o THEN e ELSE cache[p]
    BY DEF Cache
  <1>3. FlagsSound(new, base)
    BY <1>2 DEF FlagsSound
  <1>4. Updated(Through(new, base), Through(cache, base), o, Answer(e, base[o]))
    BY <1>2 DEF Updated, Through, Answer
  <1> QED
    BY <1>1, <1>3, <1>4

\* A fetch leaves every answer as it was.
LEMMA FetchLayer ==
    ASSUME NEW cache \in Cache, NEW base \in Coins, FlagsSound(cache, base),
           NEW o \in Outpoint
    PROVE  LET e   == FetchEntry(cache[o], base[o])
               new == [cache EXCEPT ![o] = e]
           IN  /\ e \in Entry \cup {NoEntry}
               /\ EntrySound(e, base[o])
               /\ Answer(e, base[o]) = Through(cache, base)[o]
               /\ e = NoEntry => base[o] = NoCoin
               /\ new \in Cache
               /\ FlagsSound(new, base)
               /\ Through(new, base) = Through(cache, base)
  <1> DEFINE e == FetchEntry(cache[o], base[o])
             new == [cache EXCEPT ![o] = e]
  <1>1. /\ cache[o] \in Entry \cup {NoEntry}
        /\ base[o] \in Value
        /\ EntrySound(cache[o], base[o])
    BY DEF Cache, Coins, FlagsSound
  <1>2. /\ e \in Entry \cup {NoEntry}
        /\ EntrySound(e, base[o])
        /\ Answer(e, base[o]) = Answer(cache[o], base[o])
        /\ e = NoEntry => base[o] = NoCoin
    BY <1>1, FetchLemma
  <1>3. Through(cache, base)[o] = Answer(cache[o], base[o])
    BY DEF Through
  <1>4. /\ new \in Cache
        /\ FlagsSound(new, base)
        /\ Updated(Through(new, base), Through(cache, base), o, Answer(e, base[o]))
    BY <1>2, StoreLemma
  <1>5. Through(new, base) = Through(cache, base)
    BY <1>2, <1>3, <1>4 DEF Updated, Through
  <1> QED
    BY <1>2, <1>3, <1>4, <1>5
-------------------------------------------------------------------------------
(* The stack of layers *)

\* The inductive invariant: the types, the soundness of both caches' flags, and
\* no exception so far.
IInv == TypeOK /\ FlagsInvariant /\ NoLogicError

\* What the innermost cache reads through.
BaseCoins == IF open THEN TipCoins ELSE db

\* Exactly one answer of the innermost layer changes, and CoinsTip() answers as
\* before unless it is the innermost layer.
Answers(o, c) ==
    /\ Updated(TopCoins', TopCoins, o, c)
    /\ TipCoins' = IF open THEN TipCoins ELSE TopCoins'
    /\ UNCHANGED <<db, dbBest, tipBest, viewBest, open>>

\* The answers of the layers are maps from outpoints to coins.
LEMMA LayerTypes ==
    ASSUME IInv
    PROVE  /\ db \in Coins
           /\ tip \in Cache
           /\ view \in Cache
           /\ TipCoins \in Coins
           /\ TopCoins \in Coins
           /\ BaseCoins \in Coins
           /\ \A o \in Outpoint : Own(o) \in Entry \cup {NoEntry}
           /\ \A o \in Outpoint : EntrySound(Own(o), BaseCoins[o])
           /\ \A o \in Outpoint : TopCoins[o] = Answer(Own(o), BaseCoins[o])
  <1>1. db \in Coins /\ tip \in Cache /\ view \in Cache
    BY DEF IInv, TypeOK, Coins, Cache, Value
  <1>2. TipCoins \in Coins
    BY <1>1, ThroughType DEF TipCoins
  <1>3. TopCoins \in Coins
    BY <1>1, <1>2, ThroughType DEF TopCoins
  <1>4. BaseCoins \in Coins
    BY <1>1, <1>2 DEF BaseCoins
  <1>5. \A o \in Outpoint : Own(o) \in Entry \cup {NoEntry}
    BY <1>1 DEF Own, Cache
  <1>6. \A o \in Outpoint : EntrySound(Own(o), BaseCoins[o])
    BY DEF IInv, FlagsInvariant, FlagsSound, Own, BaseCoins
  <1>7. \A o \in Outpoint : TopCoins[o] = Answer(Own(o), BaseCoins[o])
    <2>1. CASE open
      BY <2>1 DEF TopCoins, Own, BaseCoins, Through
    <2>2. CASE ~open
      BY <2>2 DEF TopCoins, TipCoins, Own, BaseCoins, Through
    <2> QED
      BY <2>1, <2>2
  <1> QED
    BY <1>1, <1>2, <1>3, <1>4, <1>5, <1>6, <1>7

\* Storing a sound entry in the innermost cache, with or without the fetch that
\* also fills CoinsTip(), preserves the invariant and changes one answer.
LEMMA StoreStep ==
    ASSUME IInv, NEW o \in Outpoint, NEW e \in Entry \cup {NoEntry},
           NEW fetch \in BOOLEAN, EntrySound(e, BaseCoins[o]),
           Store(o, e, fetch), logicError' = logicError
    PROVE  IInv' /\ Answers(o, Answer(e, BaseCoins[o]))
  <1> USE LayerTypes
  <1>0. UNCHANGED <<db, dbBest, tipBest, viewBest, open, logicError>>
    BY DEF Store
  <1>1. CASE open
    <2>1. view' = [view EXCEPT ![o] = e] /\ BaseCoins = TipCoins
      BY <1>1 DEF Store, BaseCoins
    <2>e. EntrySound(e, TipCoins[o])
      BY <2>1
    <2>2. FlagsSound(tip, db) /\ FlagsSound(view, TipCoins)
      BY DEF IInv, FlagsInvariant
    <2>3. tip' \in Cache /\ FlagsSound(tip', db) /\ Through(tip', db) = Through(tip, db)
      <3>1. CASE tip' = tip
        BY <2>2, <3>1
      <3>2. CASE tip' = [tip EXCEPT ![o] = FetchEntry(tip[o], db[o])]
        BY Zenon, <2>2, <3>2, FetchLayer
      <3>3. tip' = tip \/ tip' = [tip EXCEPT ![o] = tip[o]]
              \/ tip' = [tip EXCEPT ![o] = FetchEntry(tip[o], db[o])]
        BY <1>1 DEF Store, TipFetch
      <3>4. [tip EXCEPT ![o] = tip[o]] = tip
        BY DEF Cache
      <3> QED
        BY <3>1, <3>2, <3>3, <3>4
    <2>4. TipCoins' = TipCoins
      BY <1>0, <2>3 DEF TipCoins
    <2>5. /\ view' \in Cache
          /\ FlagsSound(view', TipCoins)
          /\ Updated(Through(view', TipCoins), Through(view, TipCoins), o,
                     Answer(e, TipCoins[o]))
      BY Zenon, <2>1, <2>2, <2>e, StoreLemma, LayerTypes, IInv
    <2>6. IInv'
      BY <1>0, <1>1, <2>3, <2>4, <2>5
         DEF IInv, TypeOK, FlagsInvariant, NoLogicError, Cache
    <2>7. Updated(TopCoins', TopCoins, o, Answer(e, BaseCoins[o]))
      BY <1>0, <1>1, <2>1, <2>4, <2>5 DEF TopCoins
    <2> QED
      BY <1>0, <1>1, <2>4, <2>6, <2>7 DEF Answers
  <1>2. CASE ~open
    <2>1. tip' = [tip EXCEPT ![o] = e] /\ view' = view /\ BaseCoins = db
      BY <1>2 DEF Store, BaseCoins
    <2>e. EntrySound(e, db[o])
      BY <2>1
    <2>2. FlagsSound(tip, db) /\ view = Empty /\ viewBest = NullHash
      BY <1>2 DEF IInv, FlagsInvariant
    <2>3. /\ tip' \in Cache
          /\ FlagsSound(tip', db)
          /\ Updated(Through(tip', db), Through(tip, db), o, Answer(e, db[o]))
      BY Zenon, <2>1, <2>2, <2>e, StoreLemma, LayerTypes, IInv
    <2>4. TipCoins' \in Coins
      BY <1>0, <2>3, ThroughType DEF TipCoins
    <2>5. FlagsSound(view', TipCoins')
      BY <2>1, <2>2, <2>4, EmptyLemma
    <2>6. IInv'
      BY <1>0, <2>1, <2>2, <2>3, <2>5
         DEF IInv, TypeOK, FlagsInvariant, NoLogicError, Cache
    <2>7. Updated(TopCoins', TopCoins, o, Answer(e, BaseCoins[o]))
      BY <1>0, <1>2, <2>1, <2>3 DEF TopCoins, TipCoins
    <2>8. TipCoins' = TopCoins'
      BY <1>0, <1>2 DEF TopCoins
    <2> QED
      BY <1>0, <1>2, <2>6, <2>7, <2>8 DEF Answers
  <1> QED
    BY <1>1, <1>2
-------------------------------------------------------------------------------
(* Steps on one outpoint *)

\* A read fetches and changes no answer.
LEMMA AccessStep ==
    ASSUME IInv, NEW o \in Outpoint, AccessCoin(o)
    PROVE  IInv' /\ Answers(o, TopCoins[o])
  <1>1. /\ Fetched(o) \in Entry \cup {NoEntry}
        /\ EntrySound(Fetched(o), BaseCoins[o])
        /\ Answer(Fetched(o), BaseCoins[o]) = TopCoins[o]
    BY Zenon, LayerTypes, FetchLemma DEF Fetched, BaseCoins, Coins
  <1> QED
    BY Zenon, <1>1, StoreStep DEF AccessCoin

\* A spend makes the innermost layer answer "no coin".
LEMMA SpendStep ==
    ASSUME IInv, NEW o \in Outpoint, SpendCoin(o)
    PROVE  IInv' /\ Answers(o, NoCoin)
  <1>1. /\ Fetched(o) \in Entry \cup {NoEntry}
        /\ EntrySound(Fetched(o), BaseCoins[o])
        /\ Fetched(o) = NoEntry => BaseCoins[o] = NoCoin
        /\ BaseCoins[o] \in Value
    BY LayerTypes, FetchLemma DEF Fetched, BaseCoins, Coins
  <1>2. /\ SpentEntry(Fetched(o)) \in Entry \cup {NoEntry}
        /\ EntrySound(SpentEntry(Fetched(o)), BaseCoins[o])
        /\ Answer(SpentEntry(Fetched(o)), BaseCoins[o]) = NoCoin
    BY <1>1, SpendLemma
  <1> QED
    BY Zenon, <1>2, StoreStep DEF SpendCoin

\* An output of a new transaction: FRESH is sound because the caller's outpoint
\* has no coin, and AddCoin does not throw for the same reason.
LEMMA AddNewStep ==
    ASSUME IInv, NEW o \in Outpoint, NEW c \in Coin, AddNew(o, c)
    PROVE  IInv' /\ Answers(o, c)
  <1>1. /\ Own(o) \in Entry \cup {NoEntry}
        /\ EntrySound(Own(o), BaseCoins[o])
        /\ BaseCoins[o] \in Value
        /\ Answer(Own(o), BaseCoins[o]) = NoCoin
    BY LayerTypes DEF Coins, AddNew
  <1>2. /\ AddedEntry(Own(o), c, FALSE) \in Entry
        /\ EntrySound(AddedEntry(Own(o), c, FALSE), BaseCoins[o])
        /\ Answer(AddedEntry(Own(o), c, FALSE), BaseCoins[o]) = c
    BY Zenon, <1>1, AddLemma
  <1>3. logicError' = logicError
    BY <1>1 DEF AddNew, Answer, IInv, TypeOK
  <1> QED
    BY Zenon, <1>2, <1>3, StoreStep DEF AddNew

\* A coinbase output may overwrite and is never FRESH by itself.
LEMMA AddCoinbaseStep ==
    ASSUME IInv, NEW o \in Outpoint, NEW c \in Coin, AddCoinbase(o, c)
    PROVE  IInv' /\ Answers(o, c)
  <1>1. /\ Own(o) \in Entry \cup {NoEntry}
        /\ EntrySound(Own(o), BaseCoins[o])
        /\ BaseCoins[o] \in Value
    BY LayerTypes DEF Coins
  <1>2. /\ AddedEntry(Own(o), c, TRUE) \in Entry
        /\ EntrySound(AddedEntry(Own(o), c, TRUE), BaseCoins[o])
        /\ Answer(AddedEntry(Own(o), c, TRUE), BaseCoins[o]) = c
    BY Zenon, <1>1, AddLemma
  <1> QED
    BY Zenon, <1>2, StoreStep DEF AddCoinbase

\* An output whose overwriting was looked up first.
LEMMA AddCheckedStep ==
    ASSUME IInv, NEW o \in Outpoint, NEW c \in Coin, AddChecked(o, c)
    PROVE  IInv' /\ Answers(o, c)
  <1> DEFINE overwrite == TopCoins[o] # NoCoin
  <1>1. /\ Fetched(o) \in Entry \cup {NoEntry}
        /\ EntrySound(Fetched(o), BaseCoins[o])
        /\ Answer(Fetched(o), BaseCoins[o]) = TopCoins[o]
        /\ BaseCoins[o] \in Value
    BY LayerTypes, FetchLemma DEF Fetched, BaseCoins, Coins
  <1>2. /\ AddedEntry(Fetched(o), c, overwrite) \in Entry
        /\ EntrySound(AddedEntry(Fetched(o), c, overwrite), BaseCoins[o])
        /\ Answer(AddedEntry(Fetched(o), c, overwrite), BaseCoins[o]) = c
    <2>1. overwrite \in BOOLEAN /\ (overwrite \/ Answer(Fetched(o), BaseCoins[o]) = NoCoin)
      BY <1>1
    <2> HIDE DEF overwrite
    <2> QED
      BY <1>1, <2>1, AddLemma
  <1> QED
    BY Zenon, <1>2, StoreStep DEF AddChecked

\* Dropping an entry without flags changes no answer, of CoinsTip() or of a view.
LEMMA UncacheStep ==
    ASSUME IInv, NEW o \in Outpoint, Uncache(o)
    PROVE  /\ IInv'
           /\ TipCoins' = TipCoins /\ TopCoins' = TopCoins
           /\ UNCHANGED <<db, dbBest, tipBest, viewBest, open>>
  <1> USE LayerTypes
  <1>1. UNCHANGED <<db, dbBest, tipBest, view, viewBest, open, logicError>>
    BY DEF Uncache, viewVars
  <1>2. tip' = [tip EXCEPT ![o] = NoEntry] /\ tip[o] # NoEntry /\ tip[o].flags = {}
    BY DEF Uncache
  <1>3. FlagsSound(tip, db) /\ EntrySound(NoEntry, db[o])
    BY DEF IInv, FlagsInvariant, EntrySound
  <1>4. /\ tip' \in Cache
        /\ FlagsSound(tip', db)
        /\ Updated(Through(tip', db), Through(tip, db), o, Answer(NoEntry, db[o]))
    BY Zenon, <1>2, <1>3, StoreLemma
  <1>5. Answer(NoEntry, db[o]) = TipCoins[o]
    BY <1>2, <1>3 DEF FlagsSound, EntrySound, TipCoins, Through, Answer
  <1>6. TipCoins' = TipCoins
    BY <1>1, <1>4, <1>5 DEF TipCoins, Updated, Through
  <1>7. TopCoins' = TopCoins
    BY <1>1, <1>6 DEF TopCoins
  <1>8. IInv'
    BY <1>1, <1>4, <1>6 DEF IInv, TypeOK, FlagsInvariant, NoLogicError, Cache
  <1> QED
    BY <1>1, <1>6, <1>7, <1>8
-------------------------------------------------------------------------------
(* Steps on a whole layer *)

\* Flushing the view makes CoinsTip() answer what the view answered; no FRESH
\* flag is found misapplied.
LEMMA FlushViewStep ==
    ASSUME IInv, FlushView
    PROVE  IInv' /\ TipCoins' = TopCoins /\ TopCoins' = TopCoins
  <1> USE LayerTypes
  <1>1. /\ open /\ open' = FALSE /\ view' = Empty /\ viewBest' = NullHash
        /\ db' = db /\ dbBest' = dbBest /\ tipBest' = viewBest /\ viewBest # NullHash
        /\ tip' = [o \in Outpoint |-> MergedEntry(tip[o], view[o])]
    BY DEF FlushView, CloseView
  <1>2. ASSUME NEW o \in Outpoint
        PROVE  /\ tip'[o] \in Entry \cup {NoEntry}
               /\ EntrySound(tip'[o], db[o])
               /\ Answer(tip'[o], db[o]) = TopCoins[o]
               /\ ~Misapplied(tip[o], view[o])
    <2>1. /\ tip[o] \in Entry \cup {NoEntry} /\ view[o] \in Entry \cup {NoEntry}
          /\ db[o] \in Value
      BY DEF Cache, Coins
    <2>2. EntrySound(tip[o], db[o]) /\ EntrySound(view[o], TipCoins[o])
      BY DEF IInv, FlagsInvariant, FlagsSound
    <2>3. TipCoins[o] = Answer(tip[o], db[o]) /\ TopCoins[o] = Answer(view[o], TipCoins[o])
      BY <1>1 DEF TipCoins, TopCoins, Through
    <2>4. tip'[o] = MergedEntry(tip[o], view[o])
      BY <1>1
    <2> QED
      BY <2>1, <2>2, <2>3, <2>4, MergeLemma
  <1>3. tip' \in Cache /\ FlagsSound(tip', db)
    BY <1>1, <1>2 DEF Cache, FlagsSound
  <1>4. TipCoins' = TopCoins
    BY <1>1, <1>2 DEF TipCoins, TopCoins, Through
  <1>5. TopCoins' = TopCoins
    BY <1>1, <1>4 DEF TopCoins
  <1>6. logicError' = logicError
    BY <1>2 DEF FlushView, IInv, TypeOK
  <1>7. FlagsSound(view', TipCoins')
    BY <1>1, <1>4, EmptyLemma
  <1>8. view' \in Cache
    BY <1>1, EmptyLemma
  <1>9. IInv'
    BY Zenon, <1>1, <1>3, <1>6, <1>7, <1>8
       DEF IInv, TypeOK, FlagsInvariant, NoLogicError, Cache
  <1> QED
    BY <1>4, <1>5, <1>9

\* Dropping the view leaves CoinsTip() as it was.
LEMMA DropViewStep ==
    ASSUME IInv, DropView
    PROVE  IInv' /\ TipCoins' = TipCoins /\ TopCoins' = TipCoins
  <1> USE LayerTypes
  <1>1. /\ open' = FALSE /\ view' = Empty /\ viewBest' = NullHash
        /\ UNCHANGED <<db, dbBest, tip, tipBest, logicError>>
    BY DEF DropView, CloseView, tipVars
  <1>2. TipCoins' = TipCoins /\ TopCoins' = TipCoins
    BY <1>1 DEF TipCoins, TopCoins
  <1>3. FlagsSound(view', TipCoins') /\ view' \in Cache
    BY <1>1, <1>2, EmptyLemma
  <1>4. IInv'
    BY Zenon, <1>1, <1>3 DEF IInv, TypeOK, FlagsInvariant, NoLogicError, Cache
  <1> QED
    BY <1>2, <1>4

\* A new view answers what CoinsTip() answers.
LEMMA OpenViewStep ==
    ASSUME IInv, OpenView
    PROVE  IInv' /\ TipCoins' = TipCoins /\ TopCoins' = TopCoins
  <1> USE LayerTypes
  <1>1. /\ ~open /\ open' /\ view = Empty
        /\ UNCHANGED <<db, dbBest, tip, tipBest, view, viewBest, logicError>>
    BY DEF OpenView, tipVars, viewVars, IInv, FlagsInvariant
  <1>2. TipCoins' = TipCoins
    BY <1>1 DEF TipCoins
  <1>3. TopCoins' = TopCoins
    BY <1>1, <1>2, EmptyLemma DEF TopCoins
  <1>4. IInv'
    BY <1>1, <1>2 DEF IInv, TypeOK, FlagsInvariant, NoLogicError, OpenView
  <1> QED
    BY <1>2, <1>3, <1>4

\* Writing only the DIRTY entries makes the database equal to what CoinsTip()
\* answered.
LEMMA FlushTipStep ==
    ASSUME IInv, FlushTip
    PROVE  IInv' /\ db' = TipCoins /\ TipCoins' = TipCoins /\ TopCoins' = TopCoins
  <1> USE LayerTypes
  <1>1. /\ ~open /\ tip' = Empty /\ dbBest' = TipBestBlock /\ tipBest' = TipBestBlock
        /\ view = Empty /\ viewBest = NullHash
        /\ UNCHANGED <<view, viewBest, open, logicError>>
    BY DEF FlushTip, viewVars, IInv, FlagsInvariant
  <1>2. \A o \in Outpoint : EntrySound(tip[o], db[o])
    BY DEF IInv, FlagsInvariant, FlagsSound
  <1>3. db' = TipCoins
    BY <1>2 DEF FlushTip, TipCoins, Through, Answer, EntrySound, Flags
  <1>4. FlagsSound(tip', db') /\ tip' \in Cache /\ TipCoins' = TipCoins
    BY <1>1, <1>3, EmptyLemma DEF TipCoins
  <1>5. TopCoins' = TopCoins
    BY <1>1, <1>4 DEF TopCoins
  <1>6. TipBestBlock \in Hash
    BY DEF TipBestBlock, IInv, TypeOK
  <1>7. FlagsSound(view', TipCoins')
    BY <1>1, <1>4, EmptyLemma
  <1>8. IInv'
    BY <1>1, <1>3, <1>4, <1>6, <1>7
       DEF IInv, TypeOK, FlagsInvariant, NoLogicError, Cache, Coins, Value
  <1> QED
    BY <1>3, <1>4, <1>5, <1>8

\* Reading or setting hashBlock touches no coin.
LEMMA BestBlockStep ==
    ASSUME IInv, GetBestBlock \/ \E b \in Hash : SetBestBlock(b)
    PROVE  IInv' /\ TipCoins' = TipCoins /\ TopCoins' = TopCoins
  <1>1. UNCHANGED <<db, dbBest, tip, view, open, logicError>>
    BY DEF GetBestBlock, SetBestBlock
  <1>2. TipCoins' = TipCoins /\ TopCoins' = TopCoins
    BY <1>1 DEF TipCoins, TopCoins
  <1>3. /\ tipBest' \in Hash \cup {NullHash}
        /\ viewBest' \in Hash \cup {NullHash}
        /\ ~open => viewBest' = viewBest
    BY DEF GetBestBlock, SetBestBlock, TipBestBlock, TopBestBlock, IInv, TypeOK
  <1> QED
    BY <1>1, <1>2, <1>3 DEF IInv, TypeOK, FlagsInvariant, NoLogicError
-------------------------------------------------------------------------------
(* Theorems *)

\* A step that changes no variable.
LEMMA StutterStep ==
    ASSUME UNCHANGED vars
    PROVE  /\ UNCHANGED <<db, dbBest, tip, tipBest, view, viewBest, open, logicError>>
           /\ TipCoins' = TipCoins /\ TopCoins' = TopCoins
           /\ TipBestBlock' = TipBestBlock /\ TopBestBlock' = TopBestBlock
  <1>1. UNCHANGED <<db, dbBest, tip, tipBest, view, viewBest, open, logicError>>
    BY DEF vars, tipVars, viewVars
  <1> QED
    BY <1>1 DEF TipCoins, TopCoins, TipBestBlock, TopBestBlock

\* A database read for the first time through empty caches satisfies IInv.
LEMMA InitInvariant == Init => IInv
  <1> SUFFICES ASSUME Init PROVE IInv
    OBVIOUS
  <1>1. db \in Coins
    BY DEF Init, Coins, Value
  <1>2. tip \in Cache /\ view \in Cache /\ FlagsSound(tip, db) /\ TipCoins = db
    BY <1>1, EmptyLemma DEF Init, TipCoins
  <1>3. FlagsSound(view, TipCoins)
    BY <1>1, <1>2, EmptyLemma DEF Init
  <1> QED
    BY Zenon, <1>2, <1>3 DEF Init, IInv, TypeOK, FlagsInvariant, NoLogicError, Cache

\* Every operation of the caches preserves IInv.
LEMMA NextInvariant == IInv /\ [Next]_vars => IInv'
  <1> SUFFICES ASSUME IInv, [Next]_vars PROVE IInv'
    OBVIOUS
  <1>1. ASSUME NEW o \in Outpoint, AccessCoin(o) PROVE IInv'
    BY <1>1, AccessStep
  <1>2. ASSUME NEW o \in Outpoint, SpendCoin(o) PROVE IInv'
    BY <1>2, SpendStep
  <1>3. ASSUME NEW o \in Outpoint, Uncache(o) PROVE IInv'
    BY <1>3, UncacheStep
  <1>4. ASSUME NEW o \in Outpoint, NEW c \in Coin, AddNew(o, c) PROVE IInv'
    BY <1>4, AddNewStep
  <1>5. ASSUME NEW o \in Outpoint, NEW c \in Coin, AddCoinbase(o, c) PROVE IInv'
    BY <1>5, AddCoinbaseStep
  <1>6. ASSUME NEW o \in Outpoint, NEW c \in Coin, AddChecked(o, c) PROVE IInv'
    BY <1>6, AddCheckedStep
  <1>7. ASSUME GetBestBlock \/ \E b \in Hash : SetBestBlock(b) PROVE IInv'
    BY <1>7, BestBlockStep
  <1>8. CASE OpenView
    BY <1>8, OpenViewStep
  <1>9. CASE FlushView
    BY <1>9, FlushViewStep
  <1>10. CASE DropView
    BY <1>10, DropViewStep
  <1>11. CASE FlushTip
    BY <1>11, FlushTipStep
  <1>12. CASE UNCHANGED vars
    BY <1>12, StutterStep DEF IInv, TypeOK, FlagsInvariant, NoLogicError
  <1> QED
    BY <1>1, <1>2, <1>3, <1>4, <1>5, <1>6, <1>7, <1>8, <1>9, <1>10, <1>11, <1>12
       DEF Next

\* IInv holds in every reachable state.
LEMMA Invariance == Spec => []IInv
  BY InitInvariant, NextInvariant, PTL DEF Spec

\* Type correctness of the caches (coins.cpp) for every instance.
THEOREM TypeCorrect == Spec => []TypeOK
  <1>1. IInv => TypeOK
    BY DEF IInv
  <1> QED
    BY <1>1, Invariance, PTL

\* The DIRTY and FRESH flags of both caches always agree with the layer below.
THEOREM FlagsAlwaysSound == Spec => []FlagsInvariant
  <1>1. IInv => FlagsInvariant
    BY DEF IInv
  <1> QED
    BY <1>1, Invariance, PTL

\* AddCoin and BatchWrite never throw std::logic_error.
THEOREM NeverThrows == Spec => []NoLogicError
  <1>1. IInv => NoLogicError
    BY DEF IInv
  <1> QED
    BY <1>1, Invariance, PTL
-------------------------------------------------------------------------------
(* Refinement *)

\* A change of one answer of the innermost layer is Put of the abstract maps.
LEMMA AnswersRefine ==
    ASSUME IInv, NEW o \in Outpoint, NEW c \in Value, Answers(o, c)
    PROVE  Layers!Put(o, c)
  <1> USE LayerTypes
  <1>1. /\ UNCHANGED <<db, dbBest, open>>
        /\ TopBestBlock' = TopBestBlock /\ TipBestBlock' = TipBestBlock
    BY DEF Answers, TopBestBlock, TipBestBlock
  <1>2. TopCoins' = [TopCoins EXCEPT ![o] = c]
    <2>1. Updated(TopCoins', TopCoins, o, c)
      BY DEF Answers
    <2>2. TopCoins' = [p \in Outpoint |-> TopCoins'[p]]
      BY DEF TopCoins, TipCoins, Through
    <2> QED
      BY <2>1, <2>2 DEF Updated, Coins
  <1>3. TipCoins' = IF open THEN TipCoins ELSE TopCoins'
    BY DEF Answers
  <1>4. ~open => TopBestBlock = TipBestBlock
    BY DEF TopBestBlock
  <1> QED
    BY <1>1, <1>2, <1>3, <1>4 DEF Layers!Put, Layers!Edit

\* Empty caches over a database are the initial maps.
LEMMA InitRefines == Init => Layers!Init
  <1> SUFFICES ASSUME Init PROVE Layers!Init
    OBVIOUS
  <1>1. db \in Coins
    BY DEF Init, Coins, Value
  <1>2. TipCoins = db
    BY <1>1, EmptyLemma DEF Init, TipCoins
  <1>3. TopCoins = db /\ TipBestBlock = dbBest /\ TopBestBlock = dbBest /\ open = FALSE
    BY <1>2 DEF Init, TopCoins, TipBestBlock, TopBestBlock
  <1> QED
    BY <1>2, <1>3 DEF Init, Layers!Init, Layers!Snapshot

\* Every operation of the caches is an operation of the maps or changes none.
LEMMA NextRefines == IInv /\ [Next]_vars => [Layers!Next]_(Layers!vars)
  <1> SUFFICES ASSUME IInv, [Next]_vars PROVE [Layers!Next]_(Layers!vars)
    OBVIOUS
  <1> USE LayerTypes
  <1>a. ASSUME NEW o \in Outpoint, NEW c \in Value, Answers(o, c) PROVE Layers!Next
    BY <1>a, AnswersRefine DEF Layers!Next, Value
  <1>b. NoCoin \in Value /\ Coin \subseteq Value /\ \A o \in Outpoint : TopCoins[o] \in Value
    BY DEF Value, Coins
  <1>1. ASSUME NEW o \in Outpoint, AccessCoin(o) PROVE Layers!Next
    BY <1>1, <1>a, <1>b, AccessStep
  <1>2. ASSUME NEW o \in Outpoint, SpendCoin(o) PROVE Layers!Next
    BY <1>2, <1>a, <1>b, SpendStep
  <1>3. ASSUME NEW o \in Outpoint, Uncache(o) PROVE UNCHANGED Layers!vars
    <2>1. TipBestBlock' = TipBestBlock /\ TopBestBlock' = TopBestBlock
      BY <1>3, UncacheStep DEF TipBestBlock, TopBestBlock
    <2> QED
      BY <1>3, <2>1, UncacheStep DEF Layers!vars
  <1>4. ASSUME NEW o \in Outpoint, NEW c \in Coin, AddNew(o, c) PROVE Layers!Next
    BY <1>4, <1>a, <1>b, AddNewStep
  <1>5. ASSUME NEW o \in Outpoint, NEW c \in Coin, AddCoinbase(o, c) PROVE Layers!Next
    BY <1>5, <1>a, <1>b, AddCoinbaseStep
  <1>6. ASSUME NEW o \in Outpoint, NEW c \in Coin, AddChecked(o, c) PROVE Layers!Next
    BY <1>6, <1>a, <1>b, AddCheckedStep
  <1>7. CASE GetBestBlock
    <2>1. UNCHANGED <<db, dbBest, open>> /\ TipCoins' = TipCoins /\ TopCoins' = TopCoins
      BY <1>7, BestBlockStep DEF GetBestBlock
    <2>2. TipBestBlock' = TipBestBlock /\ TopBestBlock' = TopBestBlock
      BY <1>7, <2>1, ConstantsAssumption
         DEF ConstantsAssumption, GetBestBlock, TipBestBlock, TopBestBlock, IInv, TypeOK
    <2> QED
      BY <2>1, <2>2 DEF Layers!vars
  <1>8. ASSUME NEW b \in Hash, SetBestBlock(b) PROVE Layers!SetBest(b)
    <2>1. UNCHANGED <<db, dbBest, open>> /\ TipCoins' = TipCoins /\ TopCoins' = TopCoins
      BY <1>8, BestBlockStep DEF SetBestBlock
    <2>2. /\ TopBestBlock' = b
          /\ TipBestBlock' = IF open THEN TipBestBlock ELSE b
          /\ ~open => TopCoins = TipCoins
      BY <1>8, <2>1, ConstantsAssumption
         DEF ConstantsAssumption, SetBestBlock, TipBestBlock, TopBestBlock, TopCoins
    <2> QED
      BY <2>1, <2>2 DEF Layers!SetBest, Layers!Edit
  <1>9. CASE OpenView
    <2>1. /\ ~open /\ open' = TRUE /\ viewBest = NullHash
          /\ UNCHANGED <<db, dbBest, tipBest, viewBest>>
      BY <1>9 DEF OpenView, tipVars, viewVars, IInv, FlagsInvariant
    <2>2. TipBestBlock' = TipBestBlock /\ TopBestBlock' = TopBestBlock
      BY <2>1 DEF TipBestBlock, TopBestBlock
    <2> QED
      BY <1>9, <2>1, <2>2, OpenViewStep DEF Layers!Next, Layers!Open
  <1>10. CASE FlushView
    <2>1. /\ open /\ open' = FALSE /\ viewBest # NullHash /\ tipBest' = viewBest
          /\ UNCHANGED <<db, dbBest>>
      BY <1>10 DEF FlushView, CloseView
    <2>2. TipBestBlock' = TopBestBlock /\ TopBestBlock' = TopBestBlock
      BY <2>1 DEF TipBestBlock, TopBestBlock
    <2> QED
      BY <1>10, <2>1, <2>2, FlushViewStep DEF Layers!Next, Layers!Commit
  <1>11. CASE DropView
    <2>1. open /\ open' = FALSE /\ UNCHANGED <<db, dbBest, tipBest>>
      BY <1>11 DEF DropView, CloseView, tipVars
    <2>2. TipBestBlock' = TipBestBlock /\ TopBestBlock' = TipBestBlock
      BY <2>1 DEF TipBestBlock, TopBestBlock
    <2> QED
      BY <1>11, <2>1, <2>2, DropViewStep DEF Layers!Next, Layers!Discard
  <1>12. CASE FlushTip
    <2>1. /\ ~open /\ open' = open /\ dbBest' = TipBestBlock /\ tipBest' = TipBestBlock
          /\ viewBest' = viewBest
      BY <1>12 DEF FlushTip, viewVars
    <2>2. TipBestBlock' = TipBestBlock /\ TopBestBlock' = TopBestBlock
      BY <2>1 DEF TipBestBlock, TopBestBlock
    <2> QED
      BY <1>12, <2>1, <2>2, FlushTipStep DEF Layers!Next, Layers!Sync
  <1>13. CASE UNCHANGED vars
    BY <1>13, StutterStep DEF Layers!vars
  <1> QED
    BY <1>1, <1>2, <1>3, <1>4, <1>5, <1>6, <1>7, <1>8, <1>9, <1>10, <1>11, <1>12, <1>13
       DEF Next, Layers!Next

\* The caches implement plain maps: what any layer answers, before and after any
\* history of flushes and evictions, is what an uncached map would answer.
THEOREM CachesTransparent == Spec => Transparent
  BY InitRefines, NextRefines, Invariance, PTL DEF Spec, Transparent, Layers!Spec
-------------------------------------------------------------------------------
(* Memory accounting *)

\* The coins' sizes in a cache, and their sum.
Sizes(cache) == [o \in Outpoint |-> Bytes(cache[o])]

Total(cache) == SumFunction(Sizes(cache))

LEMMA BytesType == \A e \in Entry \cup {NoEntry} : Bytes(e) \in Int
  BY ConstantsAssumption DEF ConstantsAssumption, Entry, Bytes

LEMMA SizesType ==
    ASSUME NEW cache \in Cache
    PROVE  /\ Sizes(cache) \in [Outpoint -> Int]
           /\ \A o \in Outpoint : Sizes(cache)[o] = Bytes(cache[o])
  BY BytesType DEF Cache, Sizes

LEMMA TotalEmpty == Total(Empty) = 0
  <1>1. Sizes(Empty) \in [Outpoint -> Int] /\ \A o \in Outpoint : Sizes(Empty)[o] = 0
    BY DEF Sizes, Empty, Bytes
  <1> QED
    BY <1>1, OutpointsFinite, SumZero DEF OutpointsFinite, Total

\* Account keeps the total when one entry is replaced.
LEMMA TotalStore ==
    ASSUME NEW cache \in Cache, NEW new \in Cache, NEW o \in Outpoint,
           \A x \in Outpoint : x # o => new[x] = cache[x]
    PROVE  Total(new) = Account(Total(cache), cache[o], new[o])
  <1> DEFINE a == Sizes(cache)
             c == Sizes(new)
  <1>1. a \in [Outpoint -> Int] /\ c \in [Outpoint -> Int]
    BY SizesType
  <1>2. a[o] = Bytes(cache[o]) /\ c[o] = Bytes(new[o]) /\ \A x \in Outpoint : x # o => c[x] = a[x]
    BY SizesType DEF Cache
  <1> HIDE DEF a, c
  <1>3. SumFunction(c) = SumFunction(a) - a[o] + c[o]
    BY <1>1, <1>2, OutpointsFinite, SumChange DEF OutpointsFinite
  <1> QED
    BY <1>2, <1>3 DEF Total, Account, a, c

\* Accounting entry by entry, as BatchWrite does, keeps the total.
LEMMA TotalMerge ==
    ASSUME NEW cache \in Cache, NEW new \in Cache
    PROVE  Total(new) = Total(cache)
               + SumFunction([o \in Outpoint |-> Account(0, cache[o], new[o])])
  <1> DEFINE a == Sizes(cache)
             b == [o \in Outpoint |-> Account(0, cache[o], new[o])]
             c == Sizes(new)
  <1>1. a \in [Outpoint -> Int] /\ c \in [Outpoint -> Int]
    BY SizesType
  <1>2. ASSUME NEW o \in Outpoint
        PROVE  b[o] \in Int /\ c[o] = a[o] + b[o]
    <2>1. a[o] = Bytes(cache[o]) /\ c[o] = Bytes(new[o]) /\ a[o] \in Int /\ c[o] \in Int
      BY SizesType, <1>1
    <2>2. b[o] = 0 - Bytes(cache[o]) + Bytes(new[o])
      BY DEF Account
    <2> HIDE DEF a, b, c
    <2> QED
      BY <2>1, <2>2
  <1>3. b \in [Outpoint -> Int]
    <2>1. b = [o \in Outpoint |-> b[o]]
      OBVIOUS
    <2> HIDE DEF b
    <2> QED
      BY <1>2, <2>1
  <1> HIDE DEF a, b, c
  <1>4. SumFunction(c) = SumFunction(a) + SumFunction(b)
    BY <1>1, <1>2, <1>3, OutpointsFinite, SumAdds DEF OutpointsFinite
  <1> QED
    BY <1>4 DEF Total, a, b, c

\* A store accounts in the cache that it changes, and a fetch in CoinsTip().
LEMMA UsageStore ==
    ASSUME IInv, IInv', UsageExact, NEW o \in Outpoint, NEW e, NEW fetch \in BOOLEAN,
           Store(o, e, fetch)
    PROVE  UsageExact'
  <1>1. tip \in Cache /\ view \in Cache /\ tip' \in Cache /\ view' \in Cache
    BY DEF IInv, TypeOK, Cache
  <1>2. tipUsage = Total(tip) /\ viewUsage = Total(view)
    BY DEF UsageExact, Total, Sizes
  <1>3. viewUsage' = Total(view')
    <2>1. \/ view' = view /\ viewUsage' = viewUsage
          \/ /\ viewUsage' = Account(viewUsage, view[o], view'[o])
             /\ \A x \in Outpoint : x # o => view'[x] = view[x]
      BY <1>1 DEF Store, Cache
    <2> QED
      BY <1>1, <1>2, <2>1, TotalStore
  <1>4. tipUsage' = Total(tip')
    <2>1. \/ tip' = tip /\ tipUsage' = tipUsage
          \/ /\ tipUsage' = Account(tipUsage, tip[o], tip'[o])
             /\ \A x \in Outpoint : x # o => tip'[x] = tip[x]
      BY <1>1 DEF Store, TipFetch, Cache
    <2> QED
      BY <1>1, <1>2, <2>1, TotalStore
  <1> QED
    BY <1>3, <1>4 DEF UsageExact, Total, Sizes

LEMMA UsageUncache ==
    ASSUME IInv, IInv', UsageExact, NEW o \in Outpoint, Uncache(o)
    PROVE  UsageExact'
  <1>1. tip \in Cache /\ tip' \in Cache
    BY DEF IInv, TypeOK, Cache
  <1>2. tip' = [tip EXCEPT ![o] = NoEntry] /\ tipUsage' = Account(tipUsage, tip[o], NoEntry)
    BY DEF Uncache
  <1>3. tip'[o] = NoEntry /\ \A x \in Outpoint : x # o => tip'[x] = tip[x]
    BY <1>1, <1>2 DEF Cache
  <1>4. Total(tip') = Account(Total(tip), tip[o], tip'[o])
    BY <1>1, <1>3, TotalStore
  <1> QED
    BY <1>2, <1>3, <1>4 DEF Uncache, viewVars, UsageExact, Total, Sizes

LEMMA UsageStep ==
    ASSUME IInv, IInv', UsageExact, [Next]_vars
    PROVE  UsageExact'
  <1>1. tip \in Cache /\ tip' \in Cache
    BY DEF IInv, TypeOK, Cache
  <1>2. tipUsage = Total(tip) /\ viewUsage = Total(view)
    BY DEF UsageExact, Total, Sizes
  <1>3. tipUsage' = Total(tip') /\ viewUsage' = Total(view') => UsageExact'
    BY DEF UsageExact, Total, Sizes
  <1>4. ASSUME NEW o \in Outpoint, NEW e, NEW fetch \in BOOLEAN, Store(o, e, fetch)
        PROVE  UsageExact'
    BY <1>4, UsageStore
  <1>5. ASSUME NEW o \in Outpoint, AccessCoin(o) \/ SpendCoin(o) PROVE UsageExact'
    BY Zenon, <1>4, <1>5 DEF AccessCoin, SpendCoin
  <1>6. ASSUME NEW o \in Outpoint, NEW c \in Coin,
               AddNew(o, c) \/ AddCoinbase(o, c) \/ AddChecked(o, c)
        PROVE  UsageExact'
    BY Zenon, <1>4, <1>6 DEF AddNew, AddCoinbase, AddChecked
  <1>7. ASSUME NEW o \in Outpoint, Uncache(o) PROVE UsageExact'
    BY <1>7, UsageUncache
  <1>8. CASE FlushView
    <2>1. /\ tip' = [o \in Outpoint |-> MergedEntry(tip[o], view[o])]
          /\ tipUsage' = tipUsage + SumFunction(
                [o \in Outpoint |-> Account(0, tip[o], MergedEntry(tip[o], view[o]))])
          /\ view' = Empty /\ viewUsage' = 0
      BY <1>8 DEF FlushView, CloseView
    <2>2. [o \in Outpoint |-> Account(0, tip[o], MergedEntry(tip[o], view[o]))]
            = [o \in Outpoint |-> Account(0, tip[o], tip'[o])]
      BY <2>1
    <2>3. tipUsage' = Total(tip)
                + SumFunction([o \in Outpoint |-> Account(0, tip[o], tip'[o])])
      BY <1>2, <2>1, <2>2, Zenon
    <2>4. tipUsage' = Total(tip')
      BY <1>1, <2>3, TotalMerge, Zenon
    <2> QED
      BY <1>3, <2>1, <2>4, TotalEmpty
  <1>9. CASE DropView
    BY <1>2, <1>3, <1>9, TotalEmpty DEF DropView, CloseView, tipVars
  <1>10. CASE FlushTip
    BY <1>2, <1>3, <1>10, TotalEmpty DEF FlushTip, viewVars
  <1>11. ASSUME UNCHANGED <<tip, tipUsage, view, viewUsage>> PROVE UsageExact'
    BY <1>2, <1>3, <1>11
  <1>12. CASE GetBestBlock \/ (\E b \in Hash : SetBestBlock(b)) \/ OpenView \/ UNCHANGED vars
    BY <1>11, <1>12 DEF GetBestBlock, SetBestBlock, OpenView, vars, tipVars, viewVars
  <1> QED
    BY <1>5, <1>6, <1>7, <1>8, <1>9, <1>10, <1>12, Zenon DEF Next

\* The counters by which the cache decides to flush never drift: after any
\* history, cachedCoinsUsage of either cache is the memory of its coins.
THEOREM UsageNeverDrifts == Spec => []UsageExact
  <1>1. Init => UsageExact
    <2>1. Init => tipUsage = Total(tip) /\ viewUsage = Total(view)
      BY TotalEmpty DEF Init
    <2> QED
      BY <2>1 DEF UsageExact, Total, Sizes
  <1>2. IInv /\ IInv' /\ UsageExact /\ [Next]_vars => UsageExact'
    BY UsageStep
  <1> QED
    BY <1>1, <1>2, Invariance, PTL DEF Spec
===============================================================================
