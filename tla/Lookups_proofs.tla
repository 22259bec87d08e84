--------------------------- MODULE Lookups_proofs --------------------------
(***************************************************************************)
(* Proofs about Lookups, for all values of its constants: types, and that  *)
(* what is outdated is yet to be dealt with.                               *)
(***************************************************************************)
EXTENDS Lookups, TLAPS

Objects == States \cup {"fake"}

(* What joins and leaves the stream, seen by HasVM and Carries.            *)
LEMMA AppendVM ==
    ASSUME NEW s \in Seq(Objects), NEW o \in Objects
    PROVE  /\ Append(s, o) \in Seq(Objects)
           /\ Len(Append(s, o)) = Len(s) + 1
           /\ HasVM(Append(s, o)) <=> HasVM(s) \/ o # "fake"
           /\ s # <<>> => Append(s, o) # <<>> /\ Head(Append(s, o)) = Head(s)
<1>1. Len(s) \in Nat /\ Len(Append(s, o)) = Len(s) + 1
  OBVIOUS
<1>2. \A i \in 1..Len(s) : Append(s, o)[i] = s[i]
  OBVIOUS
<1>3. Append(s, o)[Len(s) + 1] = o
  OBVIOUS
<1>4. QED BY <1>1, <1>2, <1>3 DEF HasVM

LEMMA AppendCarries ==
    ASSUME NEW s \in Seq(Objects), NEW o \in Objects, NEW c \in States
    PROVE  /\ o = c => Carries(Append(s, o), c)
           /\ o = "fake" /\ Carries(s, c) => Carries(Append(s, o), c)
<1>1. Len(s) \in Nat /\ Len(Append(s, o)) = Len(s) + 1
  OBVIOUS
<1>2. \A i \in 1..Len(s) : Append(s, o)[i] = s[i]
  OBVIOUS
<1>3. Append(s, o)[Len(s) + 1] = o
  OBVIOUS
<1>4. o = c => Carries(Append(s, o), c)
  BY <1>1, <1>3 DEF Carries
<1>5. o = "fake" /\ Carries(s, c) => Carries(Append(s, o), c)
  BY <1>1, <1>2, <1>3 DEF Carries
<1>6. QED BY <1>4, <1>5

LEMMA TailVM ==
    ASSUME NEW s \in Seq(Objects), s # <<>>
    PROVE  /\ Head(s) \in Objects /\ Tail(s) \in Seq(Objects)
           /\ Len(Tail(s)) = Len(s) - 1
           /\ HasVM(s) <=> Head(s) # "fake" \/ HasVM(Tail(s))
           /\ \A c \in States : Carries(s, c) =>
                 Carries(Tail(s), c) \/ (Head(s) = c /\ ~HasVM(Tail(s)))
<1>1. Len(s) \in Nat \ {0} /\ Len(Tail(s)) = Len(s) - 1 /\ Head(s) = s[1]
  OBVIOUS
<1>2. \A i \in 1..(Len(s) - 1) : Tail(s)[i] = s[i + 1]
  OBVIOUS
<1>3. HasVM(Tail(s)) => HasVM(s)
  BY <1>1, <1>2 DEF HasVM
<1>4. HasVM(s) => Head(s) # "fake" \/ HasVM(Tail(s))
  <2>1. SUFFICES ASSUME NEW i \in 1..Len(s), s[i] # "fake", i # 1
                 PROVE  HasVM(Tail(s))
    BY <1>1 DEF HasVM
  <2>2. i - 1 \in 1..Len(Tail(s)) /\ Tail(s)[i - 1] = s[i]
    BY <1>1, <1>2, <2>1
  <2>3. QED BY <2>1, <2>2 DEF HasVM
<1>5. ASSUME NEW c \in States, Carries(s, c)
      PROVE  Carries(Tail(s), c) \/ (Head(s) = c /\ ~HasVM(Tail(s)))
  <2>1. PICK i \in 1..Len(s) :
            s[i] = c /\ \A j \in (i + 1)..Len(s) : s[j] = "fake"
    BY <1>5 DEF Carries
  <2>2. ASSUME NEW j \in 1..Len(Tail(s)), j >= i PROVE Tail(s)[j] = "fake"
    BY <1>1, <1>2, <2>1, <2>2
  <2>3. CASE i = 1
    BY <1>1, <2>1, <2>2, <2>3 DEF HasVM
  <2>4. CASE i # 1
    <3>1. i - 1 \in 1..Len(Tail(s)) /\ Tail(s)[i - 1] = c
      BY <1>1, <1>2, <2>1, <2>4
    <3>2. \A j \in ((i - 1) + 1)..Len(Tail(s)) : Tail(s)[j] = "fake"
      BY <2>1, <2>2, <2>4
    <3>3. QED BY <3>1, <3>2 DEF Carries
  <2>5. QED BY <2>3, <2>4
<1>6. HasVM(s) <=> Head(s) # "fake" \/ HasVM(Tail(s))
  BY <1>1, <1>3, <1>4 DEF HasVM
<1>7. QED BY <1>1, <1>5, <1>6

LEMMA NoObjects == <<>> \in Seq(Objects) /\ Len(<<>>) = 0 /\ ~HasVM(<<>>)
  BY DEF HasVM

(* A number is not before itself.                                          *)
LEMMA TextLessIrreflexive == ASSUME NEW n \in Nat PROVE ~ TextLess(n, n)
<1>1. Text(n) \in Seq(Int)
  BY DEF Text
<1>2. \A i \in 1..Len(Text(n)) : ~ (Text(n)[i] < Text(n)[i]) /\ ~ (i > Len(Text(n)))
  BY <1>1
<1>3. QED BY <1>2 DEF TextLess

(* Types. *)
LEMMA TypeStep ==
    ASSUME TypeOK, CacheInv, [Next]_vars
    PROVE  TypeOK'
<1>b. stream \in Seq(Objects)
  BY DEF TypeOK, Objects
<1>c. stream # <<>> => /\ Head(stream) \in Objects /\ Tail(stream) \in Seq(Objects)
                       /\ Len(Tail(stream)) = Len(stream) - 1
  BY <1>b, TailVM
<1>d. \A o \in Objects : /\ Append(stream, o) \in Seq(Objects)
                          /\ Len(Append(stream, o)) = Len(stream) + 1
                          /\ stream # <<>> => /\ Append(stream, o) # <<>>
                                              /\ Head(Append(stream, o)) = Head(stream)
  BY <1>b, AppendVM
<1>a. /\ stream # <<>> => /\ Head(stream) \in Objects /\ Tail(stream) \in Seq(Objects)
                          /\ Len(Tail(stream)) = Len(stream) - 1
      /\ \A o \in Objects : /\ Append(stream, o) \in Seq(Objects)
                             /\ Len(Append(stream, o)) = Len(stream) + 1
                             /\ stream # <<>> => /\ Append(stream, o) # <<>>
                                                 /\ Head(Append(stream, o)) = Head(stream)
      /\ stream = <<>> => Len(stream) = 0 /\ ~IsVM
      /\ <<>> \in Seq(Objects) /\ Len(<<>>) = 0 /\ Len(stream) \in Nat
      /\ MaxQueued \in Nat \ {0} /\ MaxFaults \in Nat /\ MaxChanges \in Nat
  BY <1>b, <1>c, <1>d, NoObjects, LookupsAssumption DEF IsVM
<1>1. CASE UserChanges
  <2>0. lastSerial' = lastSerial
    BY <1>1 DEF UserChanges, Change
  <2>1. early' \in BOOLEAN /\ (early' => lastSerial' = None)
    <3>1. CASE early' = (lastSerial = None)
      BY <2>0, <3>1, Zenon
    <3>2. CASE early' = early
      BY <2>0, <3>2 DEF TypeOK
    <3>3. QED BY <1>1, <3>1, <3>2 DEF UserChanges
  <2>2. /\ count' = count + 1 /\ userAt' \in {userAt, count + 1}
        /\ changes' \in 0..MaxChanges /\ replacedAt' \in 0..userAt'
    BY <1>a, <1>1 DEF TypeOK, UserChanges, Change
  <2>3. 0..userAt \subseteq 0..userAt' /\ 0..count \subseteq 0..count'
    BY <2>2 DEF TypeOK
  <2>4. served' \in [user : 0..userAt' \cup {None}, server : States \cup {"absent"}]
    BY <1>1, <2>3 DEF TypeOK, UserChanges, Change, pipeline
  <2>5. QED
    BY <1>1, <2>1, <2>2, <2>3, <2>4
       DEF TypeOK, UserChanges, Change, IsVM, users, cn, pipeline
<1>2. CASE ServerChanges
  BY <1>a, <1>2 DEF ServerChanges, Change, TypeOK, IsVM, States, watcher,
                    users, cn, pipeline
<1>3. CASE Check
  <2>1. lastSerial' \in 0..count \cup {None} /\ early' = FALSE
    BY <1>3 DEF TypeOK, Check
  <2>2. \A f \in fetches' : f \in Nat /\ f < lastSerial'
    BY <1>3, <2>1, TextLessIrreflexive DEF TypeOK, Check, Later, None
  <2>3. missed' \subseteq {"vm", "fake"}
    BY <1>3 DEF TypeOK, Check
  <2>4. QED
    BY <1>3, <2>1, <2>2, <2>3
       DEF TypeOK, Check, WatcherUnchanged, IsVM, world, cn
<1>4. CASE \E f \in fetches : FetchAnswer(f)
  <2>1. PICK f \in fetches : FetchAnswer(f)
    BY <1>4
  <2>2. /\ fetches' \subseteq fetches /\ missed' \subseteq {"vm", "fake"}
        /\ polls' \subseteq {"all", "owner", "server"} /\ cache' \in {cache, None}
    BY <2>1 DEF TypeOK, FetchAnswer
  <2>3. QED
    BY <2>1, <2>2 DEF TypeOK, FetchAnswer, WatcherUnchanged, IsVM, world, cn
<1>5. CASE \E f \in fetches : FetchFails(f)
  BY <1>a, <1>5 DEF FetchFails, WatcherUnchanged, Fault, TypeOK, IsVM, world,
                    cn
<1>6. CASE TransformVM
  <2>a. ~waiting
    BY <1>6 DEF TypeOK, TransformVM
  <2>b. missed' \subseteq {"vm", "fake"}
    BY <1>6 DEF TypeOK, TransformVM, Transform
  <2>1. queued' \in 0..MaxQueued
    BY <1>a, <1>6 DEF TypeOK, TransformVM, Transform
  <2>2. servers # "absent" => servers \in Objects
    BY <1>6 DEF TypeOK, TransformVM, Objects
  <2>3. /\ stream' \in Seq(Objects) /\ Len(stream') <= MaxQueued + 1
        /\ stream # <<>> => stream' # <<>> /\ Head(stream') = Head(stream)
    BY <1>a, <1>6, <2>2 DEF TypeOK, TransformVM, Transform, Objects
  <2>4. QED
    BY <1>6, <2>a, <2>b, <2>1, <2>3
       DEF TypeOK, TransformVM, CNUnchanged, IsVM, Objects, world, watcher, users, cn
<1>7. CASE WaitForServers
  BY <1>7 DEF WaitForServers, CNUnchanged, TypeOK, IsVM, world, watcher, users
<1>8. CASE UpdateTimer
  BY <1>8 DEF UpdateTimer, CNUnchanged, TypeOK, IsVM, world, watcher, users
<1>9. CASE GotServers
  <2>1. /\ servers' \in States \cup {"absent"} /\ waiting' = FALSE
        /\ fsm' = "sleep" /\ drip' \in Nat
        /\ polls' \subseteq {"all", "owner", "server"}
    BY <1>9 DEF TypeOK, GotServers, News, Known, States
  <2>a. missed' \subseteq {"vm", "fake"}
    BY <1>9 DEF TypeOK, GotServers, Transform
  <2>2. queued' \in 0..MaxQueued
    BY <1>a, <1>9 DEF TypeOK, GotServers, Transform
  <2>3. waiting => stream = <<>> /\ Len(stream) = 0
    BY <1>a DEF TypeOK, CacheInv
  <2>4. servers' # "absent" => servers' \in Objects
    BY <2>1 DEF Objects
  <2>5. /\ stream' \in Seq(Objects) /\ Len(stream') <= MaxQueued + 1
        /\ stream # <<>> => stream' # <<>> /\ Head(stream') = Head(stream)
    BY <1>a, <1>9, <2>3, <2>4 DEF TypeOK, GotServers, Transform, Objects
  <2>6. QED
    BY <1>9, <2>a, <2>1, <2>2, <2>5
       DEF TypeOK, GotServers, CNUnchanged, IsVM, Objects, world, watcher, users
<1>10. CASE UpdateFails
  BY <1>a, <1>10 DEF UpdateFails, CNUnchanged, Fault, TypeOK, IsVM, world,
                     watcher, users
<1>11. CASE Drip
  BY <1>a, <1>11 DEF Drip, CNUnchanged, TypeOK, IsVM, world, watcher, users
<1>12. CASE \E f \in polls : Poll(f)
  BY <1>a, <1>12 DEF Poll, RestUnchanged, TypeOK, IsVM, world, watcher, users,
                     cn
<1>13. CASE Arrive
  BY <1>a, <1>13 DEF Arrive, RestUnchanged, TypeOK, IsVM, world, watcher,
                     users, cn
<1>14. CASE CacheHit
  BY <1>a, <1>14 DEF CacheHit, Serve, RestUnchanged, TypeOK, IsVM, world,
                     watcher, users, cn
<1>15. CASE Search
  BY <1>15 DEF Search, RestUnchanged, TypeOK, IsVM, world, watcher, cn,
               pipeline
<1>16. CASE SearchAnswer
  BY <1>a, <1>16 DEF SearchAnswer, Serve, RestUnchanged, TypeOK, IsVM, world,
                     watcher, cn
<1>17. CASE ServeFake
  BY <1>a, <1>17 DEF ServeFake, RestUnchanged, TypeOK, world, watcher, users,
                     cn
<1>18. CASE Drop
  BY <1>a, <1>18 DEF Drop, RestUnchanged, Fault, TypeOK, world, watcher, cn
<1>19. CASE Expire
  BY <1>19 DEF Expire, RestUnchanged, TypeOK, IsVM, world, watcher, cn,
               pipeline
<1>20. CASE Restart
  <2>1. Len(stream') = 0 /\ stream' \in Seq(Objects) /\ faults' \in 0..MaxFaults
    BY <1>a, <1>20 DEF TypeOK, Restart, Fresh, Fault
  <2>2. missed' \subseteq {"vm", "fake"}
    BY <1>20 DEF TypeOK, Restart
  <2>3. /\ lastSerial' \in 0..count' \cup {None} /\ early' = FALSE /\ fetches' = {}
        /\ cache' = None /\ lookup' = None /\ queued' \in 0..MaxQueued
        /\ waiting' = FALSE /\ drip' \in Nat
    BY <1>a, <1>20 DEF TypeOK, Restart, Fresh
  <2>4. fsm' = "sleep" /\ servers' = "undefined" /\ polls' = {"all"}
    BY <1>20 DEF Restart, Fresh
  <2>5. stream' \in Seq(States \cup {"fake"}) /\ Len(stream') <= MaxQueued + 1
    BY <1>a, <2>1 DEF Objects
  <2>6. /\ served' \in [user : 0..userAt' \cup {None}, server : States \cup {"absent"}]
        /\ listed' \in BOOLEAN /\ count' \in Nat /\ userAt' \in 0..count'
        /\ replacedAt' \in 0..userAt'
        /\ server' \in States \cup {"absent"} /\ changes' \in 0..MaxChanges
    BY <1>20 DEF TypeOK, Restart, world
  <2>7. QED
    BY <1>a, <2>1, <2>2, <2>3, <2>4, <2>5, <2>6 DEF TypeOK
<1>21. CASE UNCHANGED vars
  BY <1>21 DEF TypeOK, IsVM, world, watcher, users, cn, pipeline, vars
<1>22. QED
  BY <1>1, <1>2, <1>3, <1>4, <1>5, <1>6, <1>7, <1>8, <1>9, <1>10, <1>11, <1>12, <1>13, <1>14, <1>15, <1>16, <1>17, <1>18, <1>19, <1>20, <1>21
     DEF Next, WatcherStep, CNStep, UserStep, AnyPoll

LEMMA InitInv == Init => IInv
<1> SUFFICES ASSUME Init PROVE IInv
  OBVIOUS
<1>1. PICK start \in Starts : count = start[1] /\ server = start[2]
  BY DEF Init
<1>2. count \in Nat /\ server \in {"absent", "up", "down"}
  BY <1>1, LookupsAssumption
<1>3. /\ MaxChanges \in Nat /\ MaxFaults \in Nat /\ MaxQueued \in Nat
  BY LookupsAssumption
<1>4. TypeOK
  <2>1. served \in [user : 0..userAt \cup {None}, server : States \cup {"absent"}]
    BY DEF Init, NotServed
  <2>2. stream \in Seq(States \cup {"fake"}) /\ Len(stream) = 0
    BY DEF Init
  <2>3. /\ userAt \in 0..count /\ replacedAt \in 0..userAt /\ server \in States \cup {"absent"} /\ fetches = {}
        /\ early = FALSE /\ waiting = FALSE /\ listed = FALSE
        /\ queued \in 0..MaxQueued /\ changes \in 0..MaxChanges
        /\ faults \in 0..MaxFaults
    BY <1>2, <1>3 DEF Init, States
  <2>4. /\ lastSerial = None /\ cache = None /\ lookup = None /\ fsm = "sleep"
        /\ servers = "undefined" /\ drip = 0 /\ polls = {"all"} /\ missed = {}
    BY DEF Init
  <2>5. /\ lastSerial \in 0..count \cup {None} /\ fsm \in {"sleep", "update", "retry"}
        /\ cache \in 0..userAt \cup {None} /\ lookup \in 0..userAt \cup {None}
        /\ servers \in States \cup {"absent", "undefined"} /\ drip \in Nat
        /\ polls \subseteq {"all", "owner", "server"} /\ missed \subseteq {"vm", "fake"}
    BY <2>4
  <2>6. \A f \in fetches : f \in Nat /\ f < lastSerial
    BY <2>3
  <2>7. Len(stream) <= MaxQueued + 1
    BY <1>3, <2>2
  <2>8. QED
    BY <1>2, <2>1, <2>2, <2>3, <2>4, <2>5, <2>6, <2>7 DEF TypeOK
<1>5. UserInv
  BY DEF Init, UserInv, NotServed
<1>6. CacheInv
  BY NoObjects DEF Init, CacheInv, Known
<1>7. ServerInv
  BY DEF Init, ServerInv, Known
<1>8. QED BY <1>4, <1>5, <1>6, <1>7 DEF IInv

LEMMA StreamFacts ==
    ASSUME TypeOK
    PROVE  /\ stream # <<>> =>
              /\ Head(stream) \in Objects /\ Tail(stream) \in Seq(Objects)
              /\ HasVM(stream) <=> (Head(stream) # "fake" \/ HasVM(Tail(stream)))
              /\ \A c \in States : Carries(stream, c) =>
                    Carries(Tail(stream), c) \/ (Head(stream) = c /\ ~HasVM(Tail(stream)))
           /\ \A o \in Objects :
              /\ Append(stream, o) # <<>>
              /\ HasVM(Append(stream, o)) <=> (HasVM(stream) \/ o # "fake")
              /\ \A c \in States :
                    /\ o = c => Carries(Append(stream, o), c)
                    /\ o = "fake" /\ Carries(stream, c) => Carries(Append(stream, o), c)
<1>1. stream \in Seq(Objects)
  BY DEF TypeOK, Objects
<1>2. ASSUME stream # <<>>
      PROVE  /\ Head(stream) \in Objects /\ Tail(stream) \in Seq(Objects)
             /\ HasVM(stream) <=> (Head(stream) # "fake" \/ HasVM(Tail(stream)))
             /\ \A c \in States : Carries(stream, c) =>
                   Carries(Tail(stream), c) \/ (Head(stream) = c /\ ~HasVM(Tail(stream)))
  BY <1>1, <1>2, TailVM
<1>3. ASSUME NEW o \in Objects
      PROVE  /\ Append(stream, o) # <<>>
             /\ HasVM(Append(stream, o)) <=> (HasVM(stream) \/ o # "fake")
  BY <1>1, AppendVM
<1>4. ASSUME NEW o \in Objects, NEW c \in States
      PROVE  /\ o = c => Carries(Append(stream, o), c)
             /\ o = "fake" /\ Carries(stream, c) => Carries(Append(stream, o), c)
  BY <1>1, AppendCarries
<1>5. QED BY <1>2, <1>3, <1>4

(* The cache of servers and the stream. *)
LEMMA CacheStep ==
    ASSUME TypeOK, CacheInv, [Next]_vars
    PROVE  CacheInv'
<1>1. CASE UserChanges
  BY <1>1 DEF UserChanges, Change, CacheInv, watcher, cn, pipeline
<1>2. CASE ServerChanges
  BY <1>2 DEF ServerChanges, Change, CacheInv, watcher, cn, pipeline
<1>3. CASE Check
  BY <1>3 DEF Check, WatcherUnchanged, CacheInv, world, cn
<1>4. CASE \E f \in fetches : FetchAnswer(f)
  BY <1>4 DEF FetchAnswer, WatcherUnchanged, CacheInv, world, cn
<1>5. CASE \E f \in fetches : FetchFails(f)
  BY <1>5 DEF FetchFails, WatcherUnchanged, CacheInv, world, cn
<1>6. CASE TransformVM
  BY <1>6 DEF TransformVM, Transform, CNUnchanged, TypeOK, CacheInv, States,
              Known, world, cn
<1>7. CASE WaitForServers
  BY <1>7 DEF WaitForServers, CNUnchanged, CacheInv, world
<1>8. CASE UpdateTimer
  BY <1>8 DEF UpdateTimer, CNUnchanged, CacheInv, world
<1>9. CASE GotServers
  BY <1>9 DEF GotServers, Transform, News, CNUnchanged, TypeOK, CacheInv,
              States, Known, world
<1>10. CASE UpdateFails
  BY <1>10 DEF UpdateFails, CNUnchanged, CacheInv, world
<1>11. CASE Drip
  BY StreamFacts, <1>11 DEF Drip, CNUnchanged, CacheInv, Objects, world
<1>12. CASE \E f \in polls : Poll(f)
  BY <1>12 DEF Poll, RestUnchanged, TypeOK, CacheInv, world, cn
<1>13. CASE Arrive
  BY <1>13 DEF Arrive, RestUnchanged, TypeOK, CacheInv, world, cn
<1>14. CASE CacheHit
  BY StreamFacts, <1>14 DEF CacheHit, Serve, RestUnchanged, TypeOK, CacheInv,
                            IsVM, world, cn
<1>15. CASE Search
  BY <1>15 DEF Search, RestUnchanged, CacheInv, world, cn, pipeline
<1>16. CASE SearchAnswer
  BY StreamFacts, <1>16 DEF SearchAnswer, Serve, RestUnchanged, TypeOK,
                            CacheInv, IsVM, world, cn
<1>17. CASE ServeFake
  BY StreamFacts, <1>17 DEF ServeFake, RestUnchanged, CacheInv, world, cn
<1>18. CASE Drop
  BY StreamFacts, <1>18 DEF Drop, RestUnchanged, CacheInv, world, cn
<1>19. CASE Expire
  BY <1>19 DEF Expire, RestUnchanged, CacheInv, world, cn, pipeline
<1>20. CASE Restart
  <2>1. stream' = <<>> /\ drip' = 0 /\ polls' = {"all"} /\ servers' = "undefined"
    BY <1>20 DEF Restart, Fresh
  <2>2. served' = served /\ server' = server
    BY <1>20 DEF Restart, world
  <2>3. ~HasVM(stream)'
    BY <2>1, NoObjects DEF HasVM
  <2>4. QED
    BY <2>1, <2>2, <2>3 DEF CacheInv, Known
<1>21. CASE UNCHANGED vars
  BY <1>21 DEF CacheInv, world, cn, pipeline, vars
<1>22. QED
  BY <1>1, <1>2, <1>3, <1>4, <1>5, <1>6, <1>7, <1>8, <1>9, <1>10, <1>11, <1>12, <1>13, <1>14, <1>15, <1>16, <1>17, <1>18, <1>19, <1>20, <1>21
     DEF Next, WatcherStep, CNStep, UserStep, AnyPoll

LEMMA ServerStep ==
    ASSUME TypeOK, CacheInv, ServerInv, [Next]_vars
    PROVE  ServerInv'
<1>1. CASE UserChanges
  BY <1>1 DEF UserChanges, Change, ServerInv, watcher, cn, pipeline
<1>2. CASE ServerChanges
  BY <1>2 DEF ServerChanges, Change, ServerInv, watcher, cn, pipeline
<1>3. CASE Check
  BY <1>3 DEF Check, WatcherUnchanged, ServerInv, cn
<1>4. CASE \E f \in fetches : FetchAnswer(f)
  BY <1>4 DEF FetchAnswer, WatcherUnchanged, ServerInv, cn
<1>5. CASE \E f \in fetches : FetchFails(f)
  BY <1>5 DEF FetchFails, WatcherUnchanged, ServerInv, cn
<1>6. CASE TransformVM
  BY StreamFacts, <1>6 DEF TransformVM, Transform, CNUnchanged, TypeOK,
                           Objects, States, ServerInv, cn
<1>7. CASE WaitForServers
  BY <1>7 DEF WaitForServers, CNUnchanged, ServerInv
<1>8. CASE UpdateTimer
  BY <1>8 DEF UpdateTimer, CNUnchanged, ServerInv
<1>9. CASE GotServers
  BY StreamFacts, <1>9 DEF GotServers, Transform, News, CNUnchanged, TypeOK,
                           CacheInv, Objects, States, Known, ServerInv
<1>10. CASE UpdateFails
  BY <1>10 DEF UpdateFails, CNUnchanged, ServerInv
<1>11. CASE Drip
  BY StreamFacts, <1>11 DEF Drip, CNUnchanged, TypeOK, CacheInv, Objects,
                            ServerInv
<1>12. CASE \E f \in polls : Poll(f)
  BY <1>12 DEF Poll, RestUnchanged, TypeOK, ServerInv
<1>13. CASE Arrive
  BY <1>13 DEF Arrive, RestUnchanged, TypeOK, ServerInv
<1>14. CASE CacheHit
  BY StreamFacts, <1>14 DEF CacheHit, Serve, RestUnchanged, TypeOK, CacheInv,
                            IsVM, ServerInv, cn
<1>15. CASE Search
  BY <1>15 DEF Search, RestUnchanged, ServerInv, cn, pipeline
<1>16. CASE SearchAnswer
  BY StreamFacts, <1>16 DEF SearchAnswer, Serve, RestUnchanged, TypeOK,
                            CacheInv, IsVM, ServerInv, cn
<1>17. CASE ServeFake
  BY StreamFacts, <1>17 DEF ServeFake, RestUnchanged, TypeOK, IsVM, Known,
                            ServerInv, cn
<1>18. CASE Drop
  BY StreamFacts, <1>18 DEF Drop, RestUnchanged, TypeOK, IsVM, Known,
                            ServerInv, cn
<1>19. CASE Expire
  BY <1>19 DEF Expire, RestUnchanged, ServerInv, cn, pipeline
<1>20. CASE Restart
  BY <1>20 DEF Restart, Fresh, ServerInv
<1>21. CASE UNCHANGED vars
  BY <1>21 DEF ServerInv, cn, pipeline, vars
<1>22. QED
  BY <1>1, <1>2, <1>3, <1>4, <1>5, <1>6, <1>7, <1>8, <1>9, <1>10, <1>11, <1>12, <1>13, <1>14, <1>15, <1>16, <1>17, <1>18, <1>19, <1>20, <1>21
     DEF Next, WatcherStep, CNStep, UserStep, AnyPoll

LEMMA UserStepInv ==
    ASSUME TypeOK, CacheInv, UserInv, [Next]_vars
    PROVE  UserInv'
<1>1. CASE UserChanges
  <2>1. \/ userAt' = userAt /\ early' = early
        \/ userAt' = count + 1 /\ early' = (lastSerial = None)
    BY <1>1 DEF UserChanges
  <2>2. UNCHANGED <<lastSerial, fetches, cache, lookup, served, polls, queued, stream, missed>>
    BY <1>1 DEF UserChanges, Change, users, pipeline
  <2>3. CASE userAt' = userAt /\ early' = early
    BY <2>2, <2>3 DEF UserInv, WillBeNoticed, Waits
  <2>4. CASE userAt' = count + 1 /\ early' = (lastSerial = None)
    <3>1. CASE lastSerial = None
      <4>1. early'
        BY <2>4, <3>1, Zenon
      <4>2. QED BY <4>1 DEF UserInv, WillBeNoticed
    <3>2. CASE lastSerial # None
      BY <2>2, <2>4, <3>2 DEF TypeOK, UserInv, WillBeNoticed, None
    <3>3. QED BY <3>1, <3>2
  <2>5. QED BY <2>1, <2>3, <2>4
<1>2. CASE ServerChanges
  BY <1>2 DEF ServerChanges, Change, UserInv, WillBeNoticed, Waits, watcher,
              users, pipeline
<1>3. CASE Check
  BY <1>3 DEF Check, WatcherUnchanged, UserInv, WillBeNoticed, Waits, world
<1>4. CASE \E f \in fetches : FetchAnswer(f)
  BY <1>4 DEF FetchAnswer, Misses, WatcherUnchanged, TypeOK, UserInv,
              WillBeNoticed, Waits, world
<1>5. CASE \E f \in fetches : FetchFails(f)
  BY <1>5 DEF FetchFails, WatcherUnchanged, UserInv, WillBeNoticed, Waits,
              world
<1>6. CASE TransformVM
  BY StreamFacts, <1>6 DEF TransformVM, Transform, CNUnchanged, TypeOK,
                           Objects, States, UserInv, WillBeNoticed, Waits,
                           world, watcher, users
<1>7. CASE WaitForServers
  BY <1>7 DEF WaitForServers, CNUnchanged, UserInv, WillBeNoticed, Waits,
              world, watcher, users
<1>8. CASE UpdateTimer
  BY <1>8 DEF UpdateTimer, CNUnchanged, UserInv, WillBeNoticed, Waits, world,
              watcher, users
<1>9. CASE GotServers
  BY StreamFacts, <1>9 DEF GotServers, Transform, News, CNUnchanged, TypeOK,
                           Objects, States, UserInv, WillBeNoticed, Waits,
                           world, watcher, users
<1>10. CASE UpdateFails
  BY <1>10 DEF UpdateFails, CNUnchanged, UserInv, WillBeNoticed, Waits, world,
               watcher, users
<1>11. CASE Drip
  BY StreamFacts, <1>11 DEF Drip, CNUnchanged, Objects, UserInv,
                            WillBeNoticed, Waits, world, watcher, users
<1>12. CASE \E f \in polls : Poll(f)
  BY <1>12 DEF Poll, RestUnchanged, TypeOK, UserInv, WillBeNoticed, Waits,
               world, watcher, users
<1>13. CASE Arrive
  BY <1>13 DEF Arrive, RestUnchanged, TypeOK, UserInv, WillBeNoticed, Waits,
               world, watcher, users
<1>14. CASE CacheHit
  BY <1>14 DEF CacheHit, Serve, RestUnchanged, UserInv, WillBeNoticed, world,
               watcher, users
<1>15. CASE Search
  BY <1>15 DEF Search, RestUnchanged, TypeOK, UserInv, WillBeNoticed, Waits,
               world, watcher, pipeline
<1>16. CASE SearchAnswer
  BY <1>16 DEF SearchAnswer, Serve, RestUnchanged, UserInv, WillBeNoticed,
               world, watcher
<1>17. CASE ServeFake
  BY StreamFacts, <1>17 DEF ServeFake, RestUnchanged, IsVM, UserInv,
                            WillBeNoticed, Waits, world, watcher, users
<1>18. CASE Drop
  BY StreamFacts, <1>18 DEF Drop, RestUnchanged, IsVM, UserInv, WillBeNoticed,
                            Waits, world, watcher
<1>19. CASE Expire
  BY <1>19 DEF Expire, RestUnchanged, UserInv, WillBeNoticed, Waits, world,
               watcher, pipeline
<1>20. CASE Restart
  BY <1>20 DEF Restart, Fresh, UserInv
<1>21. CASE UNCHANGED vars
  BY <1>21 DEF UserInv, WillBeNoticed, Waits, world, watcher, users, pipeline,
               vars
<1>22. QED
  BY <1>1, <1>2, <1>3, <1>4, <1>5, <1>6, <1>7, <1>8, <1>9, <1>10, <1>11, <1>12, <1>13, <1>14, <1>15, <1>16, <1>17, <1>18, <1>19, <1>20, <1>21
     DEF Next, WatcherStep, CNStep, UserStep, AnyPoll

LEMMA StepInv == IInv /\ [Next]_vars => IInv'
  BY TypeStep, CacheStep, ServerStep, UserStepInv DEF IInv

LEMMA Invariance == Spec => []IInv
<1>1. Init => IInv
  BY InitInv
<1>2. IInv /\ [Next]_vars => IInv'
  BY StepInv
<1>3. QED BY <1>1, <1>2, PTL DEF Spec

(* TypeOK: every variable has its type, the stream never holds more than   *)
(* its high-water mark and one fake VM, and a fetch of changes starts from *)
(* before the number the watcher has seen (lib/ufds-watcher.js).           *)
THEOREM TypeCorrect == Spec => []TypeOK
<1>1. IInv => TypeOK
  BY DEF IInv
<1>2. QED BY <1>1, Invariance, PTL

(* StaleUserIsPending: unless a change has been missed in one of the ways  *)
(* listed at it (among them a fetch without a 'replace' of a flag), a user *)
(* in UfdsFilter's cache, in an answer on its way to it or in the zones is *)
(* up to date, or the change is yet to be looked at by UfdsWatcher, or the *)
(* VM is yet to be done again.                                             *)
THEOREM StaleUserPending == Spec => []StaleUserIsPending
<1>1. ASSUME IInv PROVE StaleUserIsPending
  <2>1. WillBeNoticed => ToBeNoticed \/ userAt = None
    BY <1>1 DEF IInv, TypeOK, WillBeNoticed, ToBeNoticed, None
  <2>2. userAt # None
    BY <1>1 DEF IInv, TypeOK, None
  <2>3. QED BY <1>1, <2>1, <2>2 DEF IInv, UserInv, StaleUserIsPending
<1>2. QED BY <1>1, Invariance, PTL

(* StaleServerIsPending: the same of the server a VM is on, between CNAPI, *)
(* CNFilter's cache and the zones.                                         *)
THEOREM StaleServerPending == Spec => []StaleServerIsPending
<1>1. ASSUME IInv PROVE StaleServerIsPending
  <2>1. SUFFICES ASSUME "vm" \notin missed, served # NotServed,
                        served.server # server, servers = server
                 PROVE  \/ polls \cap {"all", "server"} # {} \/ queued > 0
                        \/ Carries(stream, server)
    BY DEF StaleServerIsPending
  <2>2. Known(servers)
    BY <1>1, <2>1 DEF IInv, TypeOK, CacheInv, States, Known
  <2>3. QED BY <1>1, <2>1, <2>2 DEF IInv, ServerInv
<1>2. QED BY <1>1, Invariance, PTL

=============================================================================
