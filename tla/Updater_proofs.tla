--------------------------- MODULE Updater_proofs ---------------------------
(***************************************************************************)
(* Proofs about Updater, for any VMs, filters, limits and faults: types,   *)
(* and that a poll by markers sees every VM that is there throughout.      *)
(***************************************************************************)
EXTENDS Updater, SequenceTheorems, TLAPS

Pollers ==
    [useMarker : {"unknown", "yes", "no"}, checkingMarker : BOOLEAN,
     running : BOOLEAN, filter : Filters \cup {All},
     pos : Nat, limit : 1..MaxLimit,
     fetching : BOOLEAN, page : Seq(VMs), filterQueue : Seq(Filters),
     dedupe : SUBSET Filters, due : SUBSET VMs, asked : SUBSET Filters]

SamePage(p, q) == /\ q.useMarker = p.useMarker /\ q.limit = p.limit
                  /\ q.fetching = p.fetching /\ q.page = p.page

SamePoll(p, q) == /\ q.running = p.running /\ q.filter = p.filter
                  /\ q.pos = p.pos /\ q.due = p.due

(* What start() makes of a poller: one that waits, with the filter queued  *)
(* perhaps, or one that begins.                                            *)
Begins(p, q, f) ==
    /\ p.useMarker # "unknown" /\ p.running = FALSE
    /\ q.running /\ q.pos = 0 /\ q.filter = f /\ q.due = Matching(f)

LEMMA EnqueueKeeps ==
    ASSUME NEW p \in Pollers, NEW f \in Filters \cup {All}
    PROVE  /\ Enqueue(p, f) \in Pollers
           /\ SamePage(p, Enqueue(p, f)) /\ SamePoll(p, Enqueue(p, f))
           /\ Enqueue(p, f).dedupe = p.dedupe
<1>1. CASE f = All
  BY <1>1 DEF Enqueue, SamePage, SamePoll
<1>2. CASE f # All
  <2> DEFINE queue == Append(p.filterQueue, f)
  <2>1. queue \in Seq(Filters)
    BY <1>2 DEF Pollers
  <2>2. Enqueue(p, f) = [p EXCEPT !.filterQueue = queue]
    BY <1>2 DEF Enqueue
  <2> HIDE DEF queue
  <2>3. QED BY <2>1, <2>2 DEF Pollers, SamePage, SamePoll
<1>3. QED BY <1>1, <1>2

LEMMA StartKinds ==
    ASSUME NEW p \in Pollers, NEW f \in Filters \cup {All}
    PROVE  /\ Start(p, f) \in Pollers /\ SamePage(p, Start(p, f))
           /\ SamePoll(p, Start(p, f)) \/ Begins(p, Start(p, f), f)
<1> DEFINE q == Enqueue(p, f)
<1>1. q \in Pollers /\ SamePage(p, q) /\ SamePoll(p, q) /\ q.dedupe = p.dedupe
  BY EnqueueKeeps
<1>3. CASE p.useMarker = "unknown"
  <2>1. Start(p, f) = [q EXCEPT !.checkingMarker = TRUE]
    BY <1>3 DEF Start
  <2> HIDE DEF q
  <2>2. QED BY <1>1, <2>1 DEF Pollers, SamePage, SamePoll
<1>4. CASE p.useMarker # "unknown" /\ p.running
  <2>1. CASE f \in p.dedupe \cup {All}
    <3>1. Start(p, f) = p
      BY <1>4, <2>1 DEF Start
    <3>2. QED BY <3>1 DEF SamePage, SamePoll
  <2>2. CASE f \notin p.dedupe \cup {All}
    <3>1. Start(p, f) = [q EXCEPT !.dedupe = @ \cup {f}]
      BY <1>4, <2>2 DEF Start
    <3>2. f \in Filters
      BY <2>2
    <3> HIDE DEF q
    <3>3. QED BY <1>1, <3>1, <3>2 DEF Pollers, SamePage, SamePoll
  <2>3. QED BY <2>1, <2>2
<1>5. CASE p.useMarker # "unknown" /\ ~p.running
  <2> DEFINE M == Matching(f)
             A == p.asked \ {f}
  <2>1. Start(p, f) = [p EXCEPT !.running = TRUE, !.pos = 0, !.filter = f,
                                !.due = M, !.asked = A]
    BY <1>5 DEF Start
  <2>2. M \in SUBSET VMs /\ A \in SUBSET Filters /\ p.running = FALSE
    BY <1>5, UpdaterAssumption DEF Matching, Selected, Pollers
  <2> HIDE DEF M, A
  <2>3. Start(p, f) \in Pollers
    <3> DEFINE r == [p EXCEPT !.running = TRUE, !.pos = 0, !.filter = f]
    <3>1. r \in Pollers
      BY DEF Pollers
    <3>2. Start(p, f) = [r EXCEPT !.due = M, !.asked = A]
      BY <2>1 DEF Pollers
    <3> HIDE DEF r
    <3>3. QED BY <2>2, <3>1, <3>2 DEF Pollers
  <2>4. SamePage(p, Start(p, f))
    BY <2>1 DEF Pollers, SamePage
  <2>5. Begins(p, Start(p, f), f)
    BY <1>5, <2>1, <2>2 DEF Pollers, Begins, M
  <2>6. QED BY <2>3, <2>4, <2>5
<1>6. QED BY <1>3, <1>4, <1>5

-----------------------------------------------------------------------------
(* What a poller is at every step, and what it keeps of DueInv.            *)

Fine(p) == p \in Pollers /\ Shape(p)

LEMMA SameKeeps ==
    ASSUME NEW p, NEW q, SamePage(p, q), SamePoll(p, q)
    PROVE  /\ Shape(p) => Shape(q)
           /\ DueInv(p) => DueInv(q)
BY DEF SamePage, SamePoll, Shape, DueInv

LEMMA StartKeeps ==
    ASSUME NEW p, Fine(p), NEW f \in Filters \cup {All}
    PROVE  /\ Fine(Start(p, f))
           /\ DueInv(p) => DueInv(Start(p, f))
<1> DEFINE q == Start(p, f)
<1>1. q \in Pollers /\ SamePage(p, q) /\ (SamePoll(p, q) \/ Begins(p, q, f))
  BY StartKinds DEF Fine
<1> HIDE DEF q
<1>2. CASE SamePoll(p, q)
  <2>1. Fine(q) /\ (DueInv(p) => DueInv(q))
    BY <1>1, <1>2, SameKeeps DEF Fine
  <2>2. QED BY <2>1 DEF q
<1>3. CASE Begins(p, q, f)
  <2>1. p.fetching = FALSE /\ q.fetching = FALSE /\ q.page = <<>>
    BY <1>1, <1>3 DEF Begins, Fine, Shape, SamePage, Pollers
  <2>2. Shape(q)
    BY <1>1, <1>3, <2>1, UpdaterAssumption DEF Begins, SamePage, Shape
  <2>3. \A v \in Matching(f) : v > 0
    BY UpdaterAssumption DEF Matching, Selected
  <2>4. DueInv(p) => DueInv(q)
    BY <1>1, <1>3, <2>1, <2>3 DEF Begins, SamePage, DueInv
  <2>5. QED BY <1>1, <2>2, <2>4 DEF Fine, q
<1>4. QED BY <1>1, <1>2, <1>3

(* The poller's own steps.                                                 *)
LEMMA AskStep ==
    ASSUME Fine(ps), NEW f \in Filters, Ask(f)
    PROVE  Fine(ps') /\ (DueInv(ps) => DueInv(ps)')
<1> DEFINE p == [ps EXCEPT !.asked = @ \cup {f}]
<1>1. p \in Pollers /\ SamePage(ps, p) /\ SamePoll(ps, p)
  BY DEF Fine, Pollers, SamePage, SamePoll
<1>2. ps' = Start(p, f) /\ UNCHANGED vmapi
  BY DEF Ask
<1> HIDE DEF p
<1>3. Fine(p) /\ (DueInv(ps) => DueInv(p))
  BY <1>1, SameKeeps DEF Fine
<1>4. Fine(Start(p, f)) /\ (DueInv(ps) => DueInv(Start(p, f)))
  BY <1>3, StartKeeps
<1>5. QED BY <1>2, <1>4 DEF DueInv, Matching

LEMMA MarkerStep ==
    ASSUME Fine(ps), MarkerChecked
    PROVE  Fine(ps') /\ (ProbeSays \subseteq {TRUE} /\ DueInv(ps) => DueInv(ps)')
<1>1. PICK found \in ProbeSays :
        ps' = Start([ps EXCEPT !.checkingMarker = FALSE,
                               !.useMarker = IF found THEN "yes" ELSE "no"], All)
  BY DEF MarkerChecked
<1> DEFINE p == [ps EXCEPT !.checkingMarker = FALSE,
                           !.useMarker = IF found THEN "yes" ELSE "no"]
<1>2. Fine(p) /\ (ProbeSays \subseteq {TRUE} /\ DueInv(ps) => DueInv(p))
  <2>1. p \in Pollers /\ SamePoll(ps, p) /\ p.useMarker \in {"yes", "no"}
        /\ p.fetching = ps.fetching /\ p.page = ps.page
        /\ (ProbeSays \subseteq {TRUE} => p.useMarker = "yes")
    BY DEF Fine, Pollers, SamePoll
  <2> HIDE DEF p
  <2>2. QED BY <2>1 DEF Fine, SamePoll, Shape, DueInv
<1>3. ps' = Start(p, All) /\ UNCHANGED vmapi
  BY <1>1 DEF MarkerChecked
<1> HIDE DEF p
<1>4. Fine(Start(p, All))
      /\ (ProbeSays \subseteq {TRUE} /\ DueInv(ps) => DueInv(Start(p, All)))
  BY <1>2, StartKeeps
<1>5. QED BY <1>3, <1>4 DEF DueInv, Matching

LEMMA FetchStep ==
    ASSUME Fine(ps), Fetch
    PROVE  Fine(ps') /\ (DueInv(ps) => DueInv(ps)')
<1>0. PICK page \in UNION {[1..n -> Rest] : n \in 0..ps.limit} :
        ListsFirst(page, ps.limit, Rest) /\ ps' = [ps EXCEPT !.fetching = TRUE, !.page = page]
  BY DEF Fetch
<1>1. PICK n \in 0..ps.limit : page \in [1..n -> Rest]
  OBVIOUS
<1>2. n \in Nat /\ n <= ps.limit /\ ps.limit \in 1..MaxLimit /\ MaxLimit \in Nat
  BY UpdaterAssumption DEF Fine, Pollers
<1>3. Rest \subseteq VMs
  <2>1. Matching(ps.filter) \subseteq VMs
    BY UpdaterAssumption DEF Matching, Selected, Fine, Pollers
  <2>2. QED BY <2>1 DEF Rest
<1>4. page \in Seq(VMs) /\ Len(page) = n /\ (page = <<>> <=> n = 0)
  <2>1. page \in [1..n -> VMs]
    BY <1>1, <1>3
  <2>2. page \in Seq(VMs) /\ Len(page) = n
    BY <1>2, <2>1
  <2>3. QED BY <2>2
<1>5. Fine(ps')
  <2>1. ps' \in Pollers
    BY <1>0, <1>4 DEF Fine, Pollers
  <2>2. /\ ps'.fetching /\ ps'.running /\ ps'.page = page
        /\ ps'.useMarker = ps.useMarker
    BY <1>0 DEF Fine, Pollers, Fetch
  <2>3. Shape(ps')
    BY <1>2, <1>4, <2>2 DEF Fine, Shape, Fetch
  <2>4. QED BY <2>1, <2>3 DEF Fine
<1>6. ASSUME DueInv(ps) PROVE DueInv(ps')
  <2>1. ps.useMarker = "yes" /\ ps.running
    BY <1>6 DEF Fetch, Fine, Shape, DueInv, Pollers
  <2>2. \A v \in ps.due : v \in Rest
    BY <1>6, <2>1 DEF DueInv, Rest
  <2>3. page = <<>> => ps.due = {}
    BY <1>0, <1>2, <1>4, <2>2 DEF ListsFirst
  <2>4. QED BY <1>0, <1>6, <2>1, <2>2, <2>3 DEF DueInv, ListsFirst, Fine, Pollers
<1>7. QED BY <1>5, <1>6 DEF Fetch, DueInv, Matching

LEMMA PageClosed ==
    ASSUME NEW p \in Pollers
    PROVE  [p EXCEPT !.fetching = FALSE, !.page = <<>>] \in Pollers
<1> DEFINE empty == <<>>
<1>1. empty \in Seq(VMs)
  OBVIOUS
<1> HIDE DEF empty
<1>2. [p EXCEPT !.fetching = FALSE, !.page = empty] \in Pollers
  BY <1>1 DEF Pollers
<1>3. QED BY <1>2 DEF empty

LEMMA FailStep ==
    ASSUME Fine(ps), FetchFails
    PROVE  Fine(ps') /\ (DueInv(ps) => DueInv(ps)')
<1>1. ps' = [ps EXCEPT !.fetching = FALSE, !.page = <<>>] /\ UNCHANGED vmapi
  BY DEF FetchFails
<1>2. Fine(ps')
  <2>1. ps' \in Pollers
    BY <1>1, PageClosed DEF Fine
  <2>2. /\ ps'.fetching = FALSE /\ ps'.running = ps.running /\ ps'.page = <<>>
        /\ ps'.useMarker = ps.useMarker
    BY <1>1 DEF Fine, Pollers
  <2>3. QED BY <2>1, <2>2, UpdaterAssumption DEF Fine, Shape
<1>3. QED BY <1>1, <1>2 DEF DueInv, Matching, Fine, Pollers

(* What may be pushed of a page is at least its first VM.                  *)
LEMMA PushedSome ==
    ASSUME Fine(ps), psQ \in Seq(Objects), ps.page # <<>>
    PROVE  Pushed \in 1..Len(ps.page)
<1>1. Len(psQ) \in Nat /\ HighWater \in Nat \ {0} /\ Len(ps.page) \in Nat \ {0}
  BY UpdaterAssumption DEF Fine, Pollers
<1>2. QED BY <1>1 DEF Pushed

LEMMA ThirdBounds ==
    ASSUME NEW x \in Nat, NEW m \in Nat, 3 <= x, x <= 3 * m
    PROVE  Third(x) \in 1..m
BY DEF Third

LEMMA RevisedLimit ==
    ASSUME NEW limit \in 1..MaxLimit, NEW n \in 1..MaxLimit, NEW full
    PROVE  Revised(limit, n, full) \in 1..MaxLimit
<1>1. MaxLimit \in Nat /\ limit \in Nat /\ n \in Nat
  BY UpdaterAssumption
<1>2. Third(2 * limit + n) \in 1..MaxLimit /\ Third(2 * limit + MaxLimit) \in 1..MaxLimit
  BY <1>1, ThirdBounds
<1>3. QED BY <1>2 DEF Revised

LEMMA PageStep ==
    ASSUME Fine(ps), psQ \in Seq(Objects), HandlePage
    PROVE  /\ Fine(ps') /\ psQ' \in Seq(Objects)
           /\ DueInv(ps) => DueInv(ps)'
<1> DEFINE n == Pushed
           some == [i \in 1..n |-> [vm |-> ps.page[i], active |-> TRUE]]
           limit == Revised(ps.limit, n, Len(psQ) + n >= HighWater)
           pos == IF ps.useMarker = "yes" THEN ps.page[n] ELSE ps.pos + n
           due == ps.due \ {ps.page[i] : i \in 1..n}
<1>1. /\ n \in 1..Len(ps.page) /\ ps.page \in Seq(VMs) /\ Len(ps.page) <= MaxLimit
      /\ Len(ps.page) \in Nat /\ MaxLimit \in Nat /\ ps.limit \in 1..MaxLimit
  BY PushedSome, UpdaterAssumption DEF HandlePage, Fine, Pollers, Shape
<1>2. ps' = [ps EXCEPT !.fetching = FALSE, !.page = <<>>, !.pos = pos, !.due = due,
                       !.limit = limit]
  BY DEF HandlePage, AfterPage
<1>3. psQ' = psQ \o some /\ UNCHANGED vmapi /\ ps.fetching
  BY DEF HandlePage, PushPage
<1>4. n \in Nat /\ n \in 1..MaxLimit /\ \A i \in 1..n : i \in 1..Len(ps.page) /\ ps.page[i] \in VMs
  BY <1>1
<1>5. some \in Seq(Objects)
  <2>1. some \in [1..n -> Objects]
    BY <1>4 DEF Objects
  <2>2. QED BY <1>4, <2>1
<1>6. limit \in 1..MaxLimit
  BY <1>1, <1>4, RevisedLimit
<1>7. pos \in Nat /\ due \in SUBSET VMs
  <2>0. ps.page[n] \in VMs /\ VMs \subseteq Nat
    BY <1>1, UpdaterAssumption
  <2>1. ps.pos \in Nat /\ ps.page[n] \in Nat /\ ps.due \in SUBSET VMs
    BY <2>0 DEF Fine, Pollers
  <2>2. QED BY <1>4, <2>1
<1>8. DueInv(ps) => /\ ps.useMarker # "no"
                    /\ \A v \in due : v \in Matching(ps.filter) /\ v > pos
  <2> SUFFICES ASSUME DueInv(ps), NEW v \in due PROVE v \in Matching(ps.filter) /\ v > pos
    BY DEF DueInv
  <2>1. ps.running /\ ps.useMarker = "yes"
    BY <1>3 DEF Fine, Shape, DueInv, Pollers
  <2>2. v \in Matching(ps.filter) /\ v \in ps.due
    BY <2>1 DEF DueInv
  <2>3. ps.page[n] < v
    <3>1. CASE v \in {ps.page[i] : i \in 1..Len(ps.page)}
      <4>1. PICK i \in 1..Len(ps.page) : v = ps.page[i]
        BY <3>1
      <4>2. n < i
        BY <1>1, <1>4, <4>1
      <4>3. QED BY <1>1, <1>3, <4>1, <4>2 DEF DueInv
    <3>2. CASE v \notin {ps.page[i] : i \in 1..Len(ps.page)}
      BY <1>1, <1>3, <2>2, <3>2 DEF DueInv
    <3>3. QED BY <3>1, <3>2
  <2>4. QED BY <1>4, <2>1, <2>2, <2>3, UpdaterAssumption DEF Matching, Selected
<1> HIDE DEF n, some, limit, pos, due
<1>9. Fine(ps')
  <2>1. ps' \in Pollers
    <3> DEFINE p == [ps EXCEPT !.fetching = FALSE, !.page = <<>>]
    <3>1. p \in Pollers
      BY PageClosed DEF Fine
    <3>2. ps' = [p EXCEPT !.pos = pos, !.due = due, !.limit = limit]
      BY <1>2 DEF Fine, Pollers
    <3> HIDE DEF p
    <3>3. QED BY <1>6, <1>7, <3>1, <3>2 DEF Pollers
  <2>2. /\ ps'.fetching = FALSE /\ ps'.running = ps.running /\ ps'.page = <<>>
        /\ ps'.useMarker = ps.useMarker
    BY <1>2 DEF Fine, Pollers
  <2>3. QED BY <2>1, <2>2, UpdaterAssumption DEF Fine, Shape
<1>10. DueInv(ps) => DueInv(ps')
  BY <1>2, <1>8 DEF DueInv, Fine, Pollers
<1>11. QED BY <1>3, <1>5, <1>9, <1>10 DEF DueInv, Matching

LEMMA FinishStep ==
    ASSUME Fine(ps), PollFinish
    PROVE  Fine(ps') /\ (DueInv(ps) => DueInv(ps)')
<1> DEFINE p == [ps EXCEPT !.fetching = FALSE, !.running = FALSE, !.pos = 0, !.filter = All]
           q == [p EXCEPT !.filterQueue = Tail(@), !.dedupe = @ \ {Head(p.filterQueue)}]
<1>1. ps' = NextFilter(p) /\ ps.page = <<>> /\ UNCHANGED vmapi
  BY DEF PollFinish
<1>2. /\ p \in Pollers /\ p.useMarker = ps.useMarker /\ p.running = FALSE
      /\ p.fetching = FALSE /\ p.page = <<>>
  BY <1>1 DEF Fine, Pollers
<1> HIDE DEF p
<1>3. Fine(p) /\ (DueInv(ps) => DueInv(p))
  BY <1>2, UpdaterAssumption DEF Fine, Shape, DueInv
<1>4. CASE p.filterQueue = <<>>
  BY <1>1, <1>3, <1>4 DEF NextFilter, DueInv, Matching
<1>5. CASE p.filterQueue # <<>>
  <2> DEFINE f == Head(p.filterQueue)
             rest == Tail(p.filterQueue)
  <2>1. ps' = Start(q, f)
    BY <1>1, <1>5 DEF NextFilter
  <2>2. f \in Filters /\ rest \in Seq(Filters) /\ q = [p EXCEPT !.filterQueue = rest, !.dedupe = @ \ {f}]
    BY <1>2, <1>5 DEF Pollers
  <2> HIDE DEF q, f, rest
  <2>3. q \in Pollers /\ SamePage(p, q) /\ SamePoll(p, q)
    BY <1>2, <2>2 DEF Pollers, SamePage, SamePoll
  <2>4. Fine(Start(q, f)) /\ (DueInv(p) => DueInv(Start(q, f)))
    BY <1>3, <2>2, <2>3, SameKeeps, StartKeeps DEF Fine
  <2>5. QED BY <1>1, <1>3, <2>1, <2>4 DEF DueInv, Matching
<1>6. QED BY <1>4, <1>5

(* AppFSM starts a poll of all VMs, or does not.                           *)
LEMMA AppStep ==
    ASSUME Fine(ps), Bootstrap \/ FeedError \/ PollTimer
    PROVE  Fine(ps') /\ (DueInv(ps) => DueInv(ps)')
<1>1. UNCHANGED vmapi /\ ps' \in {ps, Start(ps, All)}
  BY DEF Bootstrap, FeedError, PollTimer, Enter
<1>2. Fine(Start(ps, All)) /\ (DueInv(ps) => DueInv(Start(ps, All)))
  BY StartKeeps
<1>3. QED BY <1>1, <1>2 DEF DueInv, Matching

(* VMs come and go: a poll need not find one that is gone.                 *)
LEMMA MoveStep ==
    ASSUME Fine(ps), vmapi \in [VMs -> {"absent", "active", "destroyed"}],
           NEW v \in VMs, Move(v)
    PROVE  Fine(ps') /\ (DueInv(ps) => DueInv(ps)')
<1>1. CASE vmapi[v] = "absent" /\ vmapi' = [vmapi EXCEPT ![v] = "active"]
  <2>1. ps' = ps
    BY <1>1 DEF Move
  <2>2. \A f : Matching(f) \subseteq Matching(f)'
    BY <1>1 DEF Matching, Selected
  <2>3. QED BY <2>1, <2>2 DEF DueInv
<1>2. CASE vmapi[v] = "active" /\ vmapi' = [vmapi EXCEPT ![v] = "destroyed"]
  <2> DEFINE due == ps.due \ {v}
  <2>1. ps' = [ps EXCEPT !.due = due]
    BY <1>2 DEF Move
  <2>2. due \in SUBSET VMs /\ due \subseteq ps.due /\ v \notin due
    BY DEF Fine, Pollers
  <2> HIDE DEF due
  <2>3. SamePage(ps, ps') /\ ps'.running = ps.running /\ ps'.filter = ps.filter
        /\ ps'.pos = ps.pos /\ ps'.due = due /\ ps' \in Pollers
    BY <2>1, <2>2 DEF Fine, Pollers, SamePage
  <2>4. \A f : Matching(f) \ {v} \subseteq Matching(f)'
    BY <1>2 DEF Matching, Selected
  <2>5. QED BY <2>2, <2>3, <2>4 DEF Fine, SamePage, Shape, DueInv
<1>3. QED BY <1>1, <1>2 DEF Move

LEMMA PollerStep ==
    ASSUME TypeOK, Shape(ps), [Next]_vars
    PROVE  Fine(ps') /\ (ProbeSays \subseteq {TRUE} /\ DueInv(ps) => DueInv(ps)')
<1>1. Fine(ps) /\ psQ \in Seq(Objects)
      /\ vmapi \in [VMs -> {"absent", "active", "destroyed"}]
  BY DEF TypeOK, Fine, Pollers
<1>2. CASE UNCHANGED <<ps, vmapi>>
  BY <1>1, <1>2 DEF DueInv, Matching
<1>3. CASE LoseFeed \/ FetchChanged \/ WritePolled \/ WriteChanged \/ UNCHANGED vars
  BY <1>2, <1>3 DEF LoseFeed, FetchChanged, WritePolled, WriteChanged, vars
<1>4. QED
  BY <1>1, <1>3, AskStep, MarkerStep, FetchStep, FailStep, PageStep, FinishStep,
     AppStep, MoveStep DEF Next

-----------------------------------------------------------------------------
(* Types.                                                                  *)

Others ==
    /\ vmapi \in [VMs -> {"absent", "active", "destroyed"}]
    /\ feed \in BOOLEAN /\ changes \in Seq(VMs)
    /\ app \in FirstPolls \cup {"initial", "cfRunning", "fallback"}
    /\ psQ \in Seq(Objects) /\ cffQ \in Seq(Objects) /\ served \subseteq VMs
    /\ asks \in 0..MaxAsks /\ faults \in 0..MaxFaults

LEMMA TypeParts == TypeOK <=> ps \in Pollers /\ Others
BY DEF TypeOK, Others, Pollers, bounds

LEMMA QueueTypes ==
    /\ \A v \in VMs : Append(changes, v) \in Seq(VMs) \/ changes \notin Seq(VMs)
    /\ changes \in Seq(VMs) /\ changes # <<>> => Head(changes) \in VMs /\ Tail(changes) \in Seq(VMs)
    /\ \A q \in Seq(Objects) :
          /\ q # <<>> => Head(q) \in Objects /\ Tail(q) \in Seq(Objects)
          /\ \A o \in Objects : Append(q, o) \in Seq(Objects)
  OBVIOUS

LEMMA ProcessType ==
    ASSUME served \subseteq VMs, NEW o \in Objects, Process(o)
    PROVE  served' \subseteq VMs
BY DEF Process, Objects

LEMMA FaultBound == Others /\ Fault => faults' \in 0..MaxFaults
  BY UpdaterAssumption DEF Others, Fault

LEMMA OthersStep ==
    ASSUME TypeOK, Shape(ps), [Next]_vars
    PROVE  Others'
<1>0. Others /\ Fine(ps)
  BY TypeParts DEF Fine
<1> USE DEF pipeline, bounds
<1>1. ASSUME NEW f \in Filters, Ask(f) PROVE Others'
  BY <1>0, <1>1, UpdaterAssumption DEF Ask, Others
<1>2. ASSUME NEW v \in VMs, Move(v) PROVE Others'
  <2>1. vmapi' \in [VMs -> {"absent", "active", "destroyed"}]
    BY <1>0, <1>2 DEF Move, Others
  <2>2. changes' \in Seq(VMs)
    BY <1>0, <1>2, QueueTypes DEF Move, Others
  <2>3. QED BY <1>0, <1>2, <2>1, <2>2 DEF Move, Others
<1>3. CASE MarkerChecked \/ Fetch
  BY <1>0, <1>3 DEF MarkerChecked, Fetch, Others
<1>4. CASE FetchFails
  BY <1>0, <1>4, FaultBound DEF FetchFails, Others
<1>5. CASE HandlePage
  <2>1. psQ' \in Seq(Objects)
    BY <1>0, <1>5, PageStep DEF Others
  <2>2. QED BY <1>0, <1>5, <2>1 DEF HandlePage, Others
<1>6. CASE PollFinish
  BY <1>0, <1>6 DEF PollFinish, Others, FirstPolls
<1>7. CASE Bootstrap
  BY <1>0, <1>7 DEF Bootstrap, Enter, Others, FirstPolls
<1>8. CASE FeedError
  BY <1>0, <1>8, FaultBound DEF FeedError, Enter, Others, FirstPolls
<1>9. CASE LoseFeed
  BY <1>0, <1>9, FaultBound DEF LoseFeed, Others
<1>10. CASE PollTimer
  BY <1>0, <1>10 DEF PollTimer, Others
<1>11. CASE FetchChanged
  <2> DEFINE o == [vm |-> Head(changes), active |-> vmapi[Head(changes)] = "active"]
  <2>1. changes' = Tail(changes) /\ changes # <<>> /\ cffQ' = Append(cffQ, o)
        /\ UNCHANGED <<vmapi, feed, app, psQ, served, asks, faults>>
    BY <1>11 DEF FetchChanged
  <2>2. o \in Objects
    BY <1>0, <2>1, QueueTypes DEF Others, Objects
  <2> HIDE DEF o
  <2>3. cffQ' \in Seq(Objects) /\ changes' \in Seq(VMs)
    BY <1>0, <2>1, <2>2, QueueTypes DEF Others
  <2>4. QED BY <1>0, <2>1, <2>3 DEF Others
<1>12. CASE WritePolled
  BY <1>0, <1>12, QueueTypes, ProcessType DEF WritePolled, Others
<1>13. CASE WriteChanged
  BY <1>0, <1>13, QueueTypes, ProcessType DEF WriteChanged, Others
<1>14. CASE UNCHANGED vars
  BY <1>0, <1>14 DEF vars, Others
<1>15. QED
  BY <1>1, <1>2, <1>3, <1>4, <1>5, <1>6, <1>7, <1>8, <1>9, <1>10, <1>11, <1>12, <1>13,
     <1>14 DEF Next

LEMMA TypeStep ==
    ASSUME TypeOK, Shape(ps), [Next]_vars
    PROVE  /\ TypeOK' /\ Shape(ps)'
           /\ ProbeSays \subseteq {TRUE} /\ DueInv(ps) => DueInv(ps)'
<1>1. Fine(ps') /\ Others'
  BY PollerStep, OthersStep
<1>2. TypeOK'
  BY <1>1 DEF TypeOK, Others, Fine, Pollers, bounds
<1>3. Shape(ps)'
  BY <1>1 DEF Fine, Shape
<1>4. QED BY <1>2, <1>3, PollerStep

LEMMA InitFine == Init => TypeOK /\ Shape(ps) /\ DueInv(ps)
<1> SUFFICES ASSUME Init PROVE TypeOK /\ Shape(ps) /\ DueInv(ps)
  OBVIOUS
<1>1. ps \in Pollers
  BY UpdaterAssumption DEF Init, Pollers
<1>2. Others
  <2>1. vmapi \in [VMs -> {"absent", "active", "destroyed"}]
    BY DEF Init
  <2>2. changes \in Seq(VMs) /\ psQ \in Seq(Objects) /\ cffQ \in Seq(Objects)
    BY DEF Init
  <2>3. feed = FALSE /\ app = "initial" /\ served = {} /\ asks = 0 /\ faults = 0
    BY DEF Init
  <2>4. MaxAsks \in Nat /\ MaxFaults \in Nat
    BY UpdaterAssumption
  <2>5. feed \in BOOLEAN /\ app \in FirstPolls \cup {"initial", "cfRunning", "fallback"}
        /\ served \subseteq VMs
    BY <2>3
  <2>6. asks \in 0..MaxAsks /\ faults \in 0..MaxFaults
    BY <2>3, <2>4
  <2>7. QED BY <2>1, <2>2, <2>5, <2>6 DEF Others
<1>3. Shape(ps) /\ DueInv(ps)
  BY UpdaterAssumption DEF Init, Shape, DueInv
<1>4. QED BY <1>1, <1>2, <1>3, TypeParts

(* The limit of a page never leaves what VMAPI can answer with something,  *)
(* however often pages fail or the stream is full (poller-stream.js, the   *)
(* limit's corrections in fetch()), and all else has its type.             *)
THEOREM TypeCorrect == Spec => []TypeOK
<1>1. TypeOK /\ Shape(ps) /\ [Next]_vars => TypeOK' /\ Shape(ps)'
  BY TypeStep
<1>2. QED BY <1>1, InitFine, PTL DEF Spec

(* By markers, a poll that ends has pushed every VM that was there from    *)
(* its start on and matched its filter (poller-stream.js, fetch()): pages  *)
(* that fail, are cut short by a full stream, or have lost VMs since make  *)
(* it skip none.                                                           *)
THEOREM PollsSeeAll == ProbeSays \subseteq {TRUE} => (Spec => PollSeesAll)
<1> SUFFICES ASSUME ProbeSays \subseteq {TRUE} PROVE Spec => PollSeesAll
  OBVIOUS
<1>1. IInv /\ [Next]_vars => IInv'
  BY TypeStep DEF IInv
<1>2. Init => IInv
  BY InitFine DEF IInv
<1>3. IInv => ((ps.fetching /\ ~ps'.fetching /\ ps.page = <<>>) => ps.due = {})
  BY DEF IInv, DueInv
<1>4. QED BY <1>1, <1>2, <1>3, PTL DEF Spec, PollSeesAll

=============================================================================
