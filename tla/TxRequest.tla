----------------------------- MODULE TxRequest -----------------------------
(***************************************************************************)
(* TxRequestTracker (txrequest.cpp): which peer a transaction announced by *)
(* several is downloaded from, and when the next one is tried.  A tracker  *)
(* is a record k: k.ann[t] is the row of t, its announcement by each peer  *)
(* (m_index; state "none" when there is none), and k.info[p] the counters  *)
(* that m_peerinfo keeps of p's announcements.                             *)
(*                                                                         *)
(* What the code does to the announcements of one transaction are here     *)
(* operators on its row r; Set puts a new row in the tracker and keeps the *)
(* counters up to date.                                                    *)
(*                                                                         *)
(* A time is kept relative to the clock: `wait' is the number of ticks     *)
(* until m_time, 0 once it has passed, which is all the code asks of it.   *)
(* Sequence numbers only order the reply of GetRequestable, a set here.    *)
(***************************************************************************)
EXTENDS Naturals, FiniteSets, FiniteSetsExt

CONSTANTS
    Peer,
    Tx,       \* a transaction has one hash: txid and wtxid are the same
    Rank      \* PriorityComputer: Rank[t][p], preferred peers above the others

ASSUME RankAssumption ==
    /\ IsFiniteSet(Peer) /\ IsFiniteSet(Tx)
    /\ Rank \in [Tx -> [Peer -> Nat]]
    /\ \A t \in Tx : \A p, q \in Peer : p # q => Rank[t][p] # Rank[t][q]

Candidate == {"delayed", "ready", "best"}
Waiting == {"delayed", "requested"}       \* IsWaiting()
Selected == {"best", "requested"}         \* IsSelected()
Selectable == {"ready", "best"}           \* IsSelectable()
Open == Candidate \cup {"requested"}      \* not COMPLETED

Announcement == [st : Open \cup {"none", "completed"}, wait : Nat]
Tracker == [ann : [Tx -> [Peer -> Announcement]],
            info : [Peer -> [total : Nat, requested : Nat, completed : Nat]]]

None == [st |-> "none", wait |-> 0]
NoRow == [p \in Peer |-> None]
NoInfo == [total |-> 0, requested |-> 0, completed |-> 0]
NoTracker == [ann |-> [t \in Tx |-> NoRow], info |-> [p \in Peer |-> NoInfo]]

In(r, S) == {p \in Peer : r[p].st \in S}
Tracked(k, t) == {p \in Peer : k.ann[t][p].st # "none"}

\* m_peerinfo[p] when an announcement of p goes from state `from' to `to'.
Recount(info, from, to) ==
    LET One(st, S) == IF st \in S THEN 1 ELSE 0
    IN  [total     |-> info.total + One(from, {"none"}) - One(to, {"none"}),
         requested |-> info.requested + One(to, {"requested"}) - One(from, {"requested"}),
         completed |-> info.completed + One(to, {"completed"}) - One(from, {"completed"})]

\* Modify, Erase and the emplace of ReceivedInv: the row of t becomes r.
Set(k, t, r) ==
    [ann  |-> [k.ann EXCEPT ![t] = r],
     info |-> [p \in Peer |-> Recount(k.info[p], k.ann[t][p].st, r[p].st)]]

SetAll(k, S, rows) == FoldSet(LAMBDA t, acc : Set(acc, t, rows[t]), k, S)

\* The time of a COMPLETED announcement is never looked at.
SetState(r, p, st) ==
    [r EXCEPT ![p] = [st |-> st, wait |-> IF st = "completed" THEN 0 ELSE r[p].wait]]

-----------------------------------------------------------------------------
(* One transaction. *)

\* The next element of the ByTxHash index decides: a better CANDIDATE_READY or
\* a REQUESTED leaves the new CANDIDATE_READY as it is.
PromoteCandidateReady(r, t, p) ==
    IF \/ \E q \in In(r, Selectable) : Rank[t][q] > Rank[t][p]
       \/ In(r, {"requested"}) # {}
      THEN SetState(r, p, "ready")
      ELSE [q \in Peer |-> CASE q = p -> [r[q] EXCEPT !.st = "best"]
                             [] q # p /\ r[q].st = "best" -> [r[q] EXCEPT !.st = "ready"]
                             [] OTHER -> r[q]]

\* Mutant: a deselected announcement hands over to nobody.
FaultChangeAndReselect(r, t, p, st) == SetState(r, p, st)

\* A deselected announcement hands over to the best CANDIDATE_READY.
ChangeAndReselect(r, t, p, st) ==
    LET ready == In(r, {"ready"})
        next == CHOOSE q \in ready : \A x \in ready : Rank[t][q] >= Rank[t][x]
    IN  SetState(IF r[p].st \in Selected /\ ready # {} THEN SetState(r, next, "best") ELSE r,
                 p, st)

IsOnlyNonCompleted(r, p) == In(r, Open) = {p}

MakeCompleted(r, t, p) ==
    CASE r[p].st = "completed" -> r
      [] r[p].st # "completed" /\ IsOnlyNonCompleted(r, p) -> NoRow
      [] OTHER -> ChangeAndReselect(r, t, p, "completed")

\* The announcements in a state of S whose time has, or has not, passed.
Passed(r, S) == {p \in Peer : r[p].st \in S /\ r[p].wait = 0}
Ahead(r, S) == {p \in Peer : r[p].st \in S /\ r[p].wait > 0}

\* Requests out of time are completed and due candidates promoted.
Due(r, t) ==
    FoldSet(LAMBDA p, acc : CASE acc[p].st = "delayed" -> PromoteCandidateReady(acc, t, p)
                              [] acc[p].st = "requested" -> MakeCompleted(acc, t, p)
                              [] OTHER -> acc,
            r, Passed(r, Waiting))

\* If the clock went back, candidates that are early again are demoted.
Early(r, t) ==
    FoldSet(LAMBDA p, acc : IF acc[p].st \in Selectable
                              THEN ChangeAndReselect(acc, t, p, "delayed") ELSE acc,
            r, Ahead(r, Selectable))

-----------------------------------------------------------------------------
(* The tracker. *)

\* Mutant: requests never time out.
FaultSetTimePoint(k) ==
    SetAll(k, Tx, [t \in Tx |->
      FoldSet(LAMBDA p, acc : PromoteCandidateReady(acc, t, p),
              k.ann[t], Passed(k.ann[t], {"delayed"}))])

SetTimePoint(k) == SetAll(k, Tx, [t \in Tx |-> Early(Due(k.ann[t], t), t)])

ForgetTxHash(k, t) == Set(k, t, NoRow)
ForgetAll(k, S) == SetAll(k, S, [t \in Tx |-> NoRow])

\* Every announcement of p is completed, which may erase it, then erased.
DisconnectedPeer(k, p) ==
    SetAll(k, {t \in Tx : k.ann[t][p].st # "none"},
           [t \in Tx |-> [MakeCompleted(k.ann[t], t, p) EXCEPT ![p] = None]])

\* A second announcement of t by p changes nothing, whatever its state.
ReceivedInv(k, p, t, delay) ==
    IF k.ann[t][p].st # "none"
      THEN k
      ELSE Set(k, t, [k.ann[t] EXCEPT ![p] = [st |-> "delayed", wait |-> delay]])

\* GetRequestable moves time (SetTimePoint) and returns this of the result.
Requestable(k, p) == {t \in Tx : k.ann[t][p].st = "best"}

\* Called for a CANDIDATE_BEST as GetRequestable returned it; for another
\* candidate the selected announcement gives way first.
RequestedTx(r, p, expiry) ==
    IF r[p].st \notin Candidate
      THEN r
      ELSE [q \in Peer |-> CASE q = p -> [st |-> "requested", wait |-> expiry]
                             [] q # p /\ r[q].st = "best" -> [r[q] EXCEPT !.st = "ready"]
                             [] q # p /\ r[q].st = "requested" -> [st |-> "completed", wait |-> 0]
                             [] OTHER -> r[q]]

ReceivedResponse(k, p, t) ==
    IF k.ann[t][p].st = "none" THEN k ELSE Set(k, t, MakeCompleted(k.ann[t], t, p))

CountInFlight(k, p) == k.info[p].requested
Count(k, p) == k.info[p].total

-----------------------------------------------------------------------------
\* The clock, which the tracker does not own: one tick forward, and one back
\* (of the times already passed, those in `again' lie ahead once more).
Shift(k, waits) ==
    [k EXCEPT !.ann = [t \in Tx |-> [p \in Peer |->
        IF k.ann[t][p].st \in Open
          THEN [st |-> k.ann[t][p].st, wait |-> waits[t][p]] ELSE k.ann[t][p]]]]

Forward(k) ==
    Shift(k, [t \in Tx |-> [p \in Peer |->
        IF k.ann[t][p].wait = 0 THEN 0 ELSE k.ann[t][p].wait - 1]])

Backward(k, again) ==
    Shift(k, [t \in Tx |-> [p \in Peer |->
        IF k.ann[t][p].wait > 0 \/ <<t, p>> \in again THEN k.ann[t][p].wait + 1 ELSE 0]])
=============================================================================
