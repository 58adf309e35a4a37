-------------------------- MODULE RestaurantProofs --------------------------
(***************************************************************************)
(* The invariants of module Restaurant, for every number of customers,     *)
(* order takers, waiters, foods and tables.                                *)
(***************************************************************************)
EXTENDS Restaurant, QueueLemmas, FiniteSetTheorems

-----------------------------------------------------------------------------
(* The inductive invariant *)

\* The customers who have a number, those who take up a table if they eat in,
\* and all places of each kind of thread.
Numbered == {"numbered", "sitting", "fed", "leaving", "listening", "checking", "full", "gone"}
Inside == {"entering", "hungry", "waiting", "called", "ordering", "answered", "paying",
           "numbered", "sitting", "fed", "leaving"}
CustomerPlace == {"absent", "new", "outside", "inLine", "listening", "checking", "full", "gone"}
                    \cup Inside
TakerPlace == {"absent", "new", "looking", "ready", "asking", "asked", "charging", "paid",
               "noting", "bagging", "bag", "buying", "managing", "hiring", "hiredOne",
               "seating", "checkExit", "gone"}
CookPlace == {"unhired", "hired", "cooking", "break", "back", "stove", "checkExit", "gone"}
WaiterPlace == {"absent", "idle", "break", "carrying", "serving", "thanked"}

\* Each thread is at a place of its kind, and the variables have their types.
Placed ==
    /\ at \in [Thread -> Place]
    /\ \A c \in Customer : at[C(c)] \in CustomerPlace
    /\ \A t \in Taker : at[T(t)] \in TakerPlace
    /\ \A i \in Food : at[K(i)] \in CookPlace
    /\ \A w \in Waiter : at[W(w)] \in WaiterPlace

Typed ==
    /\ mode \in Mode
    /\ eatIn \in [Customer -> BOOLEAN]
    /\ toEnter \in Seq(Customer) /\ toOrder \in Seq(Customer)
    /\ takerOf \in [Customer -> Taker] /\ custOf \in [Taker -> Customer]
    /\ choice \in [Taker -> SUBSET Nat]
    /\ busyWait \in [Taker -> Seq(Thread)] /\ sitWait \in [Customer -> Seq(Thread)]
    /\ tokenOf \in [Customer -> Nat] /\ ownerOf \in Seq(Customer)
    /\ toBag \in [Token -> SUBSET Nat] /\ ready \in [Token -> BOOLEAN]
    /\ bagged \in Seq(Token) /\ serving \in [Waiter -> Token]
    /\ stock \in [0..NumFoods -> 0..NumBought] /\ cooked \in [Food -> Nat]
    /\ onBreak \in [Food -> BOOLEAN]
    /\ money \in Nat /\ step \in [Taker -> Nat]
    /\ tables \in Nat /\ served \in Nat

Shape == Placed /\ Typed

\* The loops of the manager stay within the foods, and the manager waits for
\* the cook who was hired.
LoopsBounded ==
    /\ Is(T(Manager), "buying") => step[Manager] \in 0..NumFoods
    /\ at[T(Manager)] \in {"managing", "hiring", "hiredOne"} => step[Manager] \in Food
    /\ \A i \in Food : Is(K(i), "hired") => Is(T(Manager), "hiring") /\ step[Manager] = i

\* What is cooked, on the stove or in the inventory.
Stove(i) == IF Is(K(i), "stove") THEN 1 ELSE 0
Supply(i) == cooked[i] + Stove(i) + stock[i]

\* Food i may have been bought since the manager last looked at its stack.
Unseen(i) ==
    \/ Is(T(Manager), "buying") /\ step[Manager] > i
    \/ Is(T(Manager), "managing") /\ step[Manager] <= i
    \/ at[T(Manager)] \in {"hiring", "hiredOne"} /\ step[Manager] < i

\* A cook who works has a supply that is bounded, a larger one if the manager
\* has bought and not looked; one who works no more only uses up the stock.
FoodBounded(i) ==
    /\ Is(K(i), "back") => ~onBreak[i] /\ cooked[i] < MinCooked
    /\ Is(K(i), "unhired") => cooked[i] = 0
    /\ ~onBreak[i] => Supply(i) <= MaxCooked + 1 + NumBought
                                      + (IF Unseen(i) THEN NumBought ELSE 0)
    /\ cooked[i] + Stove(i) <= MaxCooked + 1 + 2 * NumBought

KitchenBounded == \A i \in Food : FoodBounded(i)

\* The customers who have gone are counted, and the staff has stayed for them.
Gone == {c \in Customer : Is(C(c), "gone")}

ServedCounted == served = Cardinality(Gone)

\* A taker and the customer it has called are at matching places, and only the
\* one who has to wait is in the queue of the taker's condition.
PairedTaker(t) ==
    LET c == custOf[t]
        With(place, queue) ==
            at[C(c)] = place /\ takerOf[c] = t /\ busyWait[t] = queue
    IN  /\ Is(T(t), "asking") => With("called", <<T(t)>>)
        /\ Is(T(t), "asked") => With("ordering", <<C(c)>>) /\ choice[t] = OrderOf(c)
        /\ Is(T(t), "charging") => With("answered", <<T(t)>>) /\ choice[t] = OrderOf(c)
        /\ Is(T(t), "paid") => With("paying", <<C(c)>>) /\ choice[t] = OrderOf(c)
        /\ Is(T(t), "noting") => With("numbered", <<>>) /\ choice[t] = OrderOf(c)
        /\ at[T(t)] \notin {"asking", "asked", "charging", "paid"} => busyWait[t] = <<>>

PairedCustomer(c) ==
    LET t == takerOf[c]
        With(place) == custOf[t] = c /\ Is(T(t), place)
    IN  /\ Is(C(c), "called") => With("asking")
        /\ Is(C(c), "ordering") => With("asked")
        /\ Is(C(c), "answered") => With("charging")
        /\ Is(C(c), "paying") => With("paid")

Paired == (\A t \in Taker : PairedTaker(t)) /\ (\A c \in Customer : PairedCustomer(c))

\* Nobody stands in a line twice.
InLines ==
    /\ IsInjective(toOrder) /\ \A c \in Range(toOrder) : Is(C(c), "waiting")
    /\ IsInjective(toEnter)
    /\ \A c \in Range(toEnter) : at[C(c)] \notin {"absent", "new", "outside"}

\* Numbers are given once, to those who have paid.
NumbersGiven ==
    /\ IsInjective(ownerOf)
    /\ \A c \in Customer : c \in Range(ownerOf) <=> at[C(c)] \in Numbered
    /\ \A k \in 1..Len(ownerOf) : tokenOf[ownerOf[k]] = k - 1

\* Who eats in, and who does not.
RightSide ==
    \A c \in Customer :
        /\ at[C(c)] \in {"outside", "inLine", "entering", "sitting", "fed", "leaving"} => eatIn[c]
        /\ at[C(c)] \in {"listening", "checking"} => ~eatIn[c]

\* One table for each customer who is in and eats in.
Seated == {c \in Customer : eatIn[c] /\ at[C(c)] \in Inside}

TablesSound == tables + Cardinality(Seated) <= NumTables

\* The places of an order: to be noted, to be bagged, bagged, called, or with a
\* waiter who has yet to meet the customer or has met the customer.
Owner(k) == ownerOf[k + 1]
Noting(k) == \E t \in Taker : Is(T(t), "noting") /\ custOf[t] = Owner(k)
InBag(k) == toBag[k] # {}
OnList(k) == k \in Range(bagged)
Holds(w, k) == serving[w] = k /\ at[W(w)] \in {"carrying", "serving", "thanked"}

\* An order is in one place only.
Once(k) ==
    /\ InBag(k) => ~OnList(k) /\ ~ready[k]
    /\ OnList(k) => ~ready[k]
    /\ \A w \in Waiter : Holds(w, k) =>
         /\ ~InBag(k) /\ ~OnList(k) /\ ~ready[k]
         /\ \A v \in Waiter \ {w} : ~Holds(v, k)

OncePlaced == IsInjective(bagged) /\ \A k \in Token : Once(k)

\* Only numbers that were given have orders, which are noted by then.
Given(k) ==
    InBag(k) \/ OnList(k) \/ ready[k] \/ (\E w \in Waiter : Holds(w, k)) =>
       k < Len(ownerOf) /\ ~Noting(k)

PlacedIsGiven == \A k \in Token : Given(k)

\* Where the owner of an order is.
Fits(k) ==
    k < Len(ownerOf) =>
        LET c == Owner(k)
            p == at[C(c)]
        IN  /\ InBag(k) => /\ toBag[k] \subseteq OrderOf(c)
                           /\ p \in {"numbered", "sitting", "listening", "checking"}
            /\ OnList(k) => eatIn[c] /\ p \in {"numbered", "sitting"}
            /\ ready[k] => ~eatIn[c] /\ p \in {"numbered", "checking"}
            /\ \A w \in Waiter : serving[w] = k =>
                 /\ Is(W(w), "carrying") => eatIn[c] /\ p \in {"numbered", "sitting"}
                 /\ Is(W(w), "serving") =>
                       eatIn[c] /\ p \in {"numbered", "fed"} /\ sitWait[c] = <<W(w)>>
                 /\ Is(W(w), "thanked") => p \in {"sitting", "leaving", "full", "gone"}
            /\ p \in {"numbered", "sitting", "listening", "checking"} =>
                 \/ Noting(k) \/ InBag(k) \/ OnList(k) \/ ready[k]
                 \/ \E w \in Waiter : Holds(w, k)

OwnersFit == \A k \in Token : Fits(k)

\* At a table waits the customer who sits there, or the waiter, or nobody.
TableOf(c) ==
    /\ Is(C(c), "sitting") => sitWait[c] = <<C(c)>>
    /\ ~Is(C(c), "sitting") =>
          \/ sitWait[c] = <<>>
          \/ \E w \in Waiter : /\ Is(W(w), "serving") /\ serving[w] < Len(ownerOf)
                               /\ Owner(serving[w]) = c /\ sitWait[c] = <<W(w)>>

TableQueues == \A c \in Customer : TableOf(c)

IInv ==
    /\ Shape /\ LoopsBounded /\ KitchenBounded /\ ServedCounted /\ StaffStays
    /\ Paired /\ InLines /\ NumbersGiven /\ RightSide /\ TablesSound
    /\ OncePlaced /\ PlacedIsGiven /\ OwnersFit /\ TableQueues

-----------------------------------------------------------------------------
(* The threads, and how they move *)

USE RestaurantAssumption

\* Threads of different kinds, or with different numbers, are different.
LEMMA Names ==
    /\ \A c \in Customer : C(c) \in Thread
    /\ \A t \in Taker : T(t) \in Thread
    /\ \A w \in Waiter : W(w) \in Thread
    /\ \A i \in Food : K(i) \in Thread
    /\ \A x, y : C(x) = C(y) => x = y
    /\ \A x, y : T(x) = T(y) => x = y
    /\ \A x, y : W(x) = W(y) => x = y
    /\ \A x, y : K(x) = K(y) => x = y
    /\ \A x, y : C(x) # T(y) /\ C(x) # W(y) /\ C(x) # K(y)
    /\ \A x, y : T(x) # W(y) /\ T(x) # K(y)
    /\ \A x, y : W(x) # K(y)
BY SMT DEF C, T, W, K, Thread

\* A thread is of one of four kinds, and its name tells which.
LEMMA Kinds ==
    /\ \A x : C(x)[1] = "customer" /\ C(x)[2] = x
    /\ \A x : T(x)[1] = "taker" /\ T(x)[2] = x
    /\ \A x : W(x)[1] = "waiter" /\ W(x)[2] = x
    /\ \A x : K(x)[1] = "cook" /\ K(x)[2] = x
    /\ \A thread \in Thread :
         \/ \E c \in Customer : thread = C(c)
         \/ \E t \in Taker : thread = T(t)
         \/ \E w \in Waiter : thread = W(w)
         \/ \E i \in Food : thread = K(i)
BY SMT DEF C, T, W, K, Thread

\* Nobody but these customers, takers, cooks and waiters moves.
OnlyMove(cs, ts, is, ws) ==
    /\ \A c \in Customer \ cs : at'[C(c)] = at[C(c)]
    /\ \A t \in Taker \ ts : at'[T(t)] = at[T(t)]
    /\ \A i \in Food \ is : at'[K(i)] = at[K(i)]
    /\ \A w \in Waiter \ ws : at'[W(w)] = at[W(w)]

LEMMA PlacesOfKinds ==
    /\ CustomerPlace \subseteq Place /\ TakerPlace \subseteq Place
    /\ CookPlace \subseteq Place /\ WaiterPlace \subseteq Place
BY DEF CustomerPlace, TakerPlace, CookPlace, WaiterPlace, Place, Inside, Woken

LEMMA WokenPlaces ==
    /\ Woken["asking"] = "asked" /\ Woken["charging"] = "paid"
    /\ Woken["ordering"] = "answered" /\ Woken["paying"] = "numbered"
    /\ Woken["sitting"] = "fed" /\ Woken["serving"] = "thanked"
BY DEF Woken

\* What Go does to the places of customers, takers, cooks and waiters.
LEMMA GoCustomer ==
    ASSUME Shape, NEW c \in Customer, NEW p \in CustomerPlace, Go(C(c), p)
    PROVE  at' \in [Thread -> Place] /\ at'[C(c)] = p /\ OnlyMove({c}, {}, {}, {})
<1>1. C(c) \in Thread /\ p \in Place /\ at \in [Thread -> Place]
  BY Names, PlacesOfKinds DEF Shape, Placed, Typed
<1>2. at' = [at EXCEPT ![C(c)] = p]
  BY DEF Go
<1> QED
  BY <1>1, <1>2, Names DEF OnlyMove

LEMMA GoTaker ==
    ASSUME Shape, NEW t \in Taker, NEW p \in TakerPlace, Go(T(t), p)
    PROVE  at' \in [Thread -> Place] /\ at'[T(t)] = p /\ OnlyMove({}, {t}, {}, {})
<1>1. T(t) \in Thread /\ p \in Place /\ at \in [Thread -> Place]
  BY Names, PlacesOfKinds DEF Shape, Placed, Typed
<1>2. at' = [at EXCEPT ![T(t)] = p]
  BY DEF Go
<1> QED
  BY <1>1, <1>2, Names DEF OnlyMove

LEMMA GoCook ==
    ASSUME Shape, NEW i \in Food, NEW p \in CookPlace, Go(K(i), p)
    PROVE  at' \in [Thread -> Place] /\ at'[K(i)] = p /\ OnlyMove({}, {}, {i}, {})
<1>1. K(i) \in Thread /\ p \in Place /\ at \in [Thread -> Place]
  BY Names, PlacesOfKinds DEF Shape, Placed, Typed
<1>2. at' = [at EXCEPT ![K(i)] = p]
  BY DEF Go
<1> QED
  BY <1>1, <1>2, Names DEF OnlyMove

LEMMA GoWaiter ==
    ASSUME Shape, NEW w \in Waiter, NEW p \in WaiterPlace, Go(W(w), p)
    PROVE  at' \in [Thread -> Place] /\ at'[W(w)] = p /\ OnlyMove({}, {}, {}, {w})
<1>1. W(w) \in Thread /\ p \in Place /\ at \in [Thread -> Place]
  BY Names, PlacesOfKinds DEF Shape, Placed, Typed
<1>2. at' = [at EXCEPT ![W(w)] = p]
  BY DEF Go
<1> QED
  BY <1>1, <1>2, Names DEF OnlyMove

\* What a thread that moves and then signals does: the first in the queue goes on.
LEMMA WakeOne ==
    ASSUME NEW places \in [Thread -> Place], NEW y \in Thread, Woken[places[y]] \in Place
    PROVE  /\ WakeFirst(places, <<y>>) \in [Thread -> Place]
           /\ WakeFirst(places, <<y>>)[y] = Woken[places[y]]
           /\ \A z \in Thread : z # y => WakeFirst(places, <<y>>)[z] = places[z]
<1>1. <<y>> # <<>> /\ Head(<<y>>) = y
  OBVIOUS
<1>2. WakeFirst(places, <<y>>) = [places EXCEPT ![y] = Woken[places[y]]]
  BY <1>1, Zenon DEF WakeFirst
<1> QED
  BY <1>2

\* If nobody waits, only the caller moves.
LEMMA MoveOnly ==
    ASSUME NEW x, NEW p, at' = WakeFirst([at EXCEPT ![x] = p], <<>>)
    PROVE  Go(x, p)
BY DEF WakeFirst, Go

\* The queues of one.
LEMMA ShortQueues ==
    /\ DropFirst(<<>>) = <<>>
    /\ \A x : DropFirst(<<x>>) = <<>>
    /\ \A x : Append(<<>>, x) = <<x>>
    /\ \A x : Append(DropFirst(<<x>>), x) = <<x>>
    /\ \A x, y : Append(DropFirst(<<x>>), y) = <<y>>
    /\ \A x : Append(DropFirst(<<>>), x) = <<x>>
BY DEF DropFirst

\* Only those two move.
LEMMA OnlyCustomerAndTaker ==
    ASSUME NEW c, NEW t, \A z \in Thread : z # C(c) /\ z # T(t) => at'[z] = at[z]
    PROVE  OnlyMove({c}, {t}, {}, {})
<1>1. \A d \in Customer \ {c} : C(d) \in Thread /\ C(d) # C(c) /\ C(d) # T(t)
  BY Names
<1>2. \A s \in Taker \ {t} : T(s) \in Thread /\ T(s) # C(c) /\ T(s) # T(t)
  BY Names
<1>3. \A i \in Food : K(i) \in Thread /\ K(i) # C(c) /\ K(i) # T(t)
  BY Names
<1>4. \A w \in Waiter : W(w) \in Thread /\ W(w) # C(c) /\ W(w) # T(t)
  BY Names
<1> QED
  BY <1>1, <1>2, <1>3, <1>4 DEF OnlyMove

LEMMA OnlyCustomerAndWaiter ==
    ASSUME NEW c, NEW w, \A z \in Thread : z # C(c) /\ z # W(w) => at'[z] = at[z]
    PROVE  OnlyMove({c}, {}, {}, {w})
<1>1. \A d \in Customer \ {c} : C(d) \in Thread /\ C(d) # C(c) /\ C(d) # W(w)
  BY Names
<1>2. \A t \in Taker : T(t) \in Thread /\ T(t) # C(c) /\ T(t) # W(w)
  BY Names
<1>3. \A i \in Food : K(i) \in Thread /\ K(i) # C(c) /\ K(i) # W(w)
  BY Names
<1>4. \A v \in Waiter \ {w} : W(v) \in Thread /\ W(v) # C(c) /\ W(v) # W(w)
  BY Names
<1> QED
  BY <1>1, <1>2, <1>3, <1>4 DEF OnlyMove

\* A customer and a taker who meet: the customer waits, and the taker goes on.
LEMMA CustomerWakesTaker ==
    ASSUME Shape, NEW c \in Customer, NEW t \in Taker, NEW p \in CustomerPlace,
           Woken[at[T(t)]] \in TakerPlace, at' = SignalAndWait(C(c), p, <<T(t)>>)
    PROVE  /\ at' \in [Thread -> Place] /\ at'[C(c)] = p /\ at'[T(t)] = Woken[at[T(t)]]
           /\ OnlyMove({c}, {t}, {}, {})
<1>1. C(c) \in Thread /\ T(t) \in Thread /\ C(c) # T(t) /\ p \in Place
      /\ Woken[at[T(t)]] \in Place /\ at \in [Thread -> Place]
  BY Names, PlacesOfKinds DEF Shape, Placed, Typed
<1>2. at' = WakeFirst([at EXCEPT ![C(c)] = p], <<T(t)>>)
  BY DEF SignalAndWait
<1> DEFINE moved == [at EXCEPT ![C(c)] = p]
<1>3. moved \in [Thread -> Place] /\ moved[C(c)] = p
      /\ \A z \in Thread : z # C(c) => moved[z] = at[z]
  BY <1>1
<1>4. at' = WakeFirst(moved, <<T(t)>>)
  BY <1>2
<1> HIDE DEF moved
<1>5. moved[T(t)] = at[T(t)]
  BY <1>1, <1>3
<1>6. /\ at' \in [Thread -> Place] /\ at'[T(t)] = Woken[at[T(t)]]
      /\ \A z \in Thread : z # T(t) => at'[z] = moved[z]
  <2>1. Woken[moved[T(t)]] \in Place
    BY <1>1, <1>5
  <2>2. /\ WakeFirst(moved, <<T(t)>>) \in [Thread -> Place]
        /\ WakeFirst(moved, <<T(t)>>)[T(t)] = Woken[moved[T(t)]]
        /\ \A z \in Thread : z # T(t) => WakeFirst(moved, <<T(t)>>)[z] = moved[z]
    BY <1>1, <1>3, <2>1, WakeOne, Zenon
  <2> QED
    BY <1>4, <1>5, <2>2, Zenon
<1>7. \A z \in Thread : z # C(c) /\ z # T(t) => at'[z] = at[z]
  BY <1>3, <1>6
<1>8. at'[C(c)] = p
  BY <1>1, <1>3, <1>6
<1> QED
  BY <1>6, <1>7, <1>8, OnlyCustomerAndTaker

LEMMA TakerWakesCustomer ==
    ASSUME Shape, NEW c \in Customer, NEW t \in Taker, NEW p \in TakerPlace,
           Woken[at[C(c)]] \in CustomerPlace,
           at' = SignalAndWait(T(t), p, <<C(c)>>)
    PROVE  /\ at' \in [Thread -> Place] /\ at'[T(t)] = p /\ at'[C(c)] = Woken[at[C(c)]]
           /\ OnlyMove({c}, {t}, {}, {})
<1>1. C(c) \in Thread /\ T(t) \in Thread /\ T(t) # C(c) /\ p \in Place
      /\ Woken[at[C(c)]] \in Place /\ at \in [Thread -> Place]
  BY Names, PlacesOfKinds DEF Shape, Placed, Typed
<1>2. at' = WakeFirst([at EXCEPT ![T(t)] = p], <<C(c)>>)
  BY DEF SignalAndWait
<1> DEFINE moved == [at EXCEPT ![T(t)] = p]
<1>3. moved \in [Thread -> Place] /\ moved[T(t)] = p
      /\ \A z \in Thread : z # T(t) => moved[z] = at[z]
  BY <1>1
<1>4. at' = WakeFirst(moved, <<C(c)>>)
  BY <1>2
<1> HIDE DEF moved
<1>5. moved[C(c)] = at[C(c)]
  BY <1>1, <1>3
<1>6. /\ at' \in [Thread -> Place] /\ at'[C(c)] = Woken[at[C(c)]]
      /\ \A z \in Thread : z # C(c) => at'[z] = moved[z]
  <2>1. Woken[moved[C(c)]] \in Place
    BY <1>1, <1>5
  <2>2. /\ WakeFirst(moved, <<C(c)>>) \in [Thread -> Place]
        /\ WakeFirst(moved, <<C(c)>>)[C(c)] = Woken[moved[C(c)]]
        /\ \A z \in Thread : z # C(c) => WakeFirst(moved, <<C(c)>>)[z] = moved[z]
    BY <1>1, <1>3, <2>1, WakeOne, Zenon
  <2> QED
    BY <1>4, <1>5, <2>2, Zenon
<1>7. \A z \in Thread : z # T(t) /\ z # C(c) => at'[z] = at[z]
  BY <1>3, <1>6
<1>8. at'[T(t)] = p
  BY <1>1, <1>3, <1>6
<1> QED
  BY <1>6, <1>7, <1>8, OnlyCustomerAndTaker

LEMMA CustomerWakesWaiter ==
    ASSUME Shape, NEW c \in Customer, NEW w \in Waiter, NEW p \in CustomerPlace,
           Woken[at[W(w)]] \in WaiterPlace,
           at' = SignalAndWait(C(c), p, <<W(w)>>)
    PROVE  /\ at' \in [Thread -> Place] /\ at'[C(c)] = p /\ at'[W(w)] = Woken[at[W(w)]]
           /\ OnlyMove({c}, {}, {}, {w})
<1>1. C(c) \in Thread /\ W(w) \in Thread /\ C(c) # W(w) /\ p \in Place
      /\ Woken[at[W(w)]] \in Place /\ at \in [Thread -> Place]
  BY Names, PlacesOfKinds DEF Shape, Placed, Typed
<1>2. at' = WakeFirst([at EXCEPT ![C(c)] = p], <<W(w)>>)
  BY DEF SignalAndWait
<1> DEFINE moved == [at EXCEPT ![C(c)] = p]
<1>3. moved \in [Thread -> Place] /\ moved[C(c)] = p
      /\ \A z \in Thread : z # C(c) => moved[z] = at[z]
  BY <1>1
<1>4. at' = WakeFirst(moved, <<W(w)>>)
  BY <1>2
<1> HIDE DEF moved
<1>5. moved[W(w)] = at[W(w)]
  BY <1>1, <1>3
<1>6. /\ at' \in [Thread -> Place] /\ at'[W(w)] = Woken[at[W(w)]]
      /\ \A z \in Thread : z # W(w) => at'[z] = moved[z]
  <2>1. Woken[moved[W(w)]] \in Place
    BY <1>1, <1>5
  <2>2. /\ WakeFirst(moved, <<W(w)>>) \in [Thread -> Place]
        /\ WakeFirst(moved, <<W(w)>>)[W(w)] = Woken[moved[W(w)]]
        /\ \A z \in Thread : z # W(w) => WakeFirst(moved, <<W(w)>>)[z] = moved[z]
    BY <1>1, <1>3, <2>1, WakeOne, Zenon
  <2> QED
    BY <1>4, <1>5, <2>2, Zenon
<1>7. \A z \in Thread : z # C(c) /\ z # W(w) => at'[z] = at[z]
  BY <1>3, <1>6
<1>8. at'[C(c)] = p
  BY <1>1, <1>3, <1>6
<1> QED
  BY <1>6, <1>7, <1>8, OnlyCustomerAndWaiter

LEMMA WaiterWakesCustomer ==
    ASSUME Shape, NEW c \in Customer, NEW w \in Waiter, NEW p \in WaiterPlace,
           Woken[at[C(c)]] \in CustomerPlace,
           at' = SignalAndWait(W(w), p, <<C(c)>>)
    PROVE  /\ at' \in [Thread -> Place] /\ at'[W(w)] = p /\ at'[C(c)] = Woken[at[C(c)]]
           /\ OnlyMove({c}, {}, {}, {w})
<1>1. C(c) \in Thread /\ W(w) \in Thread /\ W(w) # C(c) /\ p \in Place
      /\ Woken[at[C(c)]] \in Place /\ at \in [Thread -> Place]
  BY Names, PlacesOfKinds DEF Shape, Placed, Typed
<1>2. at' = WakeFirst([at EXCEPT ![W(w)] = p], <<C(c)>>)
  BY DEF SignalAndWait
<1> DEFINE moved == [at EXCEPT ![W(w)] = p]
<1>3. moved \in [Thread -> Place] /\ moved[W(w)] = p
      /\ \A z \in Thread : z # W(w) => moved[z] = at[z]
  BY <1>1
<1>4. at' = WakeFirst(moved, <<C(c)>>)
  BY <1>2
<1> HIDE DEF moved
<1>5. moved[C(c)] = at[C(c)]
  BY <1>1, <1>3
<1>6. /\ at' \in [Thread -> Place] /\ at'[C(c)] = Woken[at[C(c)]]
      /\ \A z \in Thread : z # C(c) => at'[z] = moved[z]
  <2>1. Woken[moved[C(c)]] \in Place
    BY <1>1, <1>5
  <2>2. /\ WakeFirst(moved, <<C(c)>>) \in [Thread -> Place]
        /\ WakeFirst(moved, <<C(c)>>)[C(c)] = Woken[moved[C(c)]]
        /\ \A z \in Thread : z # C(c) => WakeFirst(moved, <<C(c)>>)[z] = moved[z]
    BY <1>1, <1>3, <2>1, WakeOne, Zenon
  <2> QED
    BY <1>4, <1>5, <2>2, Zenon
<1>7. \A z \in Thread : z # W(w) /\ z # C(c) => at'[z] = at[z]
  BY <1>3, <1>6
<1>8. at'[W(w)] = p
  BY <1>1, <1>3, <1>6
<1> QED
  BY <1>6, <1>7, <1>8, OnlyCustomerAndWaiter

\* The manager and a cook move together.
LEMMA ManagerAndCook ==
    ASSUME Shape, NEW i \in Food, NEW p \in TakerPlace, NEW q \in CookPlace,
           at' = [[at EXCEPT ![K(i)] = q] EXCEPT ![T(Manager)] = p]
    PROVE  /\ at' \in [Thread -> Place] /\ at'[T(Manager)] = p /\ at'[K(i)] = q
           /\ OnlyMove({}, {Manager}, {i}, {})
<1>1. Manager \in Taker
  BY DEF Manager, Taker
<1>2. K(i) \in Thread /\ T(Manager) \in Thread /\ K(i) # T(Manager) /\ p \in Place
      /\ q \in Place /\ at \in [Thread -> Place]
  BY <1>1, Names, PlacesOfKinds DEF Shape, Placed, Typed
<1> DEFINE moved == [at EXCEPT ![K(i)] = q]
<1>3. moved \in [Thread -> Place] /\ moved[K(i)] = q
      /\ \A z \in Thread : z # K(i) => moved[z] = at[z]
  BY <1>2
<1>4. at' = [moved EXCEPT ![T(Manager)] = p]
  OBVIOUS
<1> HIDE DEF moved
<1>5. /\ at' \in [Thread -> Place] /\ at'[T(Manager)] = p /\ at'[K(i)] = q
      /\ \A z \in Thread : z # K(i) /\ z # T(Manager) => at'[z] = at[z]
  BY <1>2, <1>3, <1>4
<1> QED
  BY <1>5, Names DEF OnlyMove

-----------------------------------------------------------------------------
(* Who moves in each meeting *)

GiveOrderMove(c, t) ==
    /\ t = takerOf[c] /\ custOf[t] = c
    /\ at[C(c)] = "called" /\ at[T(t)] = "asking"
    /\ at' \in [Thread -> Place] /\ at'[C(c)] = "ordering" /\ at'[T(t)] = "asked"
    /\ OnlyMove({c}, {t}, {}, {})
    /\ busyWait' = [busyWait EXCEPT ![t] = <<C(c)>>]
    /\ choice' = [choice EXCEPT ![t] = OrderOf(c)]
    /\ UNCHANGED <<mode, eatIn, lines, takerOf, custOf, tokenOf, ownerOf, sitWait,
                  orders, serving, kitchen, step, served>>

LEMMA GiveOrderMoves ==
    ASSUME Shape, Paired, NEW c \in Customer, GiveOrder(c)
    PROVE  \E t \in Taker : GiveOrderMove(c, t)
<1> DEFINE t == takerOf[c]
<1>1. t \in Taker /\ at[C(c)] = "called"
  BY DEF GiveOrder, Is, Shape, Placed, Typed
<1>2. custOf[t] = c /\ at[T(t)] = "asking"
  BY <1>1 DEF Paired, PairedCustomer, Is
<1>3. busyWait[t] = <<T(t)>>
  BY <1>1, <1>2 DEF Paired, PairedTaker, Is
<1>4. at' = SignalAndWait(C(c), "ordering", <<T(t)>>)
  BY <1>3 DEF GiveOrder
<1>5. Woken[at[T(t)]] = "asked" /\ "asked" \in TakerPlace /\ "ordering" \in CustomerPlace
  BY <1>2, WokenPlaces DEF TakerPlace, CustomerPlace, Inside
<1>6. /\ at' \in [Thread -> Place] /\ at'[C(c)] = "ordering" /\ at'[T(t)] = "asked"
      /\ OnlyMove({c}, {t}, {}, {})
  BY <1>1, <1>4, <1>5, CustomerWakesTaker
<1>7. Append(DropFirst(busyWait[t]), C(c)) = <<C(c)>>
  BY <1>3, ShortQueues
<1>8. /\ busyWait' = [busyWait EXCEPT ![t] = <<C(c)>>]
      /\ choice' = [choice EXCEPT ![t] = OrderOf(c)]
  BY <1>7 DEF GiveOrder
<1>90. UNCHANGED <<mode, eatIn, lines, takerOf, custOf, tokenOf, ownerOf, sitWait, orders,
                    serving, kitchen, step, served>>
  BY DEF GiveOrder
<1> QED
  BY <1>1, <1>2, <1>6, <1>8, <1>90 DEF GiveOrderMove

PayMove(c, t) ==
    /\ t = takerOf[c] /\ custOf[t] = c
    /\ at[C(c)] = "answered" /\ at[T(t)] = "charging"
    /\ at' \in [Thread -> Place] /\ at'[C(c)] = "paying" /\ at'[T(t)] = "paid"
    /\ OnlyMove({c}, {t}, {}, {})
    /\ busyWait' = [busyWait EXCEPT ![t] = <<C(c)>>]
    /\ UNCHANGED <<mode, eatIn, lines, takerOf, custOf, choice, tokenOf, ownerOf,
                  sitWait, orders, serving, kitchen, step, served>>

LEMMA PayMoves ==
    ASSUME Shape, Paired, NEW c \in Customer, Pay(c)
    PROVE  \E t \in Taker : PayMove(c, t)
<1> DEFINE t == takerOf[c]
<1>1. t \in Taker /\ at[C(c)] = "answered"
  BY DEF Pay, Is, Shape, Placed, Typed
<1>2. custOf[t] = c /\ at[T(t)] = "charging"
  BY <1>1 DEF Paired, PairedCustomer, Is
<1>3. busyWait[t] = <<T(t)>>
  BY <1>1, <1>2 DEF Paired, PairedTaker, Is
<1>4. at' = SignalAndWait(C(c), "paying", <<T(t)>>)
  BY <1>3 DEF Pay
<1>5. Woken[at[T(t)]] = "paid" /\ "paid" \in TakerPlace /\ "paying" \in CustomerPlace
  BY <1>2, WokenPlaces DEF TakerPlace, CustomerPlace, Inside
<1>6. /\ at' \in [Thread -> Place] /\ at'[C(c)] = "paying" /\ at'[T(t)] = "paid"
      /\ OnlyMove({c}, {t}, {}, {})
  BY <1>1, <1>4, <1>5, CustomerWakesTaker
<1>7. Append(DropFirst(busyWait[t]), C(c)) = <<C(c)>>
  BY <1>3, ShortQueues
<1>8. busyWait' = [busyWait EXCEPT ![t] = <<C(c)>>]
  BY <1>7 DEF Pay
<1>90. UNCHANGED <<mode, eatIn, lines, takerOf, custOf, choice, tokenOf, ownerOf, sitWait,
                    orders, serving, kitchen, step, served>>
  BY DEF Pay
<1> QED
  BY <1>1, <1>2, <1>6, <1>8, <1>90 DEF PayMove

TakeOrderMove(c, t) ==
    /\ c = custOf[t] /\ takerOf[c] = t
    /\ at[C(c)] = "ordering" /\ at[T(t)] = "asked"
    /\ at' \in [Thread -> Place] /\ at'[C(c)] = "answered" /\ at'[T(t)] = "charging"
    /\ OnlyMove({c}, {t}, {}, {})
    /\ busyWait' = [busyWait EXCEPT ![t] = <<T(t)>>]
    /\ choice[t] = OrderOf(c)
    /\ UNCHANGED <<mode, eatIn, lines, takerOf, custOf, choice, tokenOf, ownerOf,
                  sitWait, orders, serving, kitchen, step, served>>

LEMMA TakeOrderMoves ==
    ASSUME Shape, Paired, NEW t \in Taker, TakeOrder(t)
    PROVE  \E c \in Customer : TakeOrderMove(c, t)
<1> DEFINE c == custOf[t]
<1>1. c \in Customer /\ at[T(t)] = "asked"
  BY DEF TakeOrder, Is, Shape, Placed, Typed
<1>2. /\ takerOf[c] = t /\ at[C(c)] = "ordering" /\ busyWait[t] = <<C(c)>>
      /\ choice[t] = OrderOf(c)
  BY <1>1 DEF Paired, PairedTaker, Is
<1>4. at' = SignalAndWait(T(t), "charging", <<C(c)>>)
  BY <1>2 DEF TakeOrder
<1>5. Woken[at[C(c)]] = "answered" /\ "answered" \in CustomerPlace /\ "charging" \in TakerPlace
  BY <1>2, WokenPlaces DEF TakerPlace, CustomerPlace, Inside
<1>6. /\ at' \in [Thread -> Place] /\ at'[C(c)] = "answered" /\ at'[T(t)] = "charging"
      /\ OnlyMove({c}, {t}, {}, {})
  BY <1>1, <1>4, <1>5, TakerWakesCustomer
<1>7. Append(DropFirst(busyWait[t]), T(t)) = <<T(t)>>
  BY <1>2, ShortQueues
<1>8. busyWait' = [busyWait EXCEPT ![t] = <<T(t)>>]
  BY <1>7 DEF TakeOrder
<1>90. UNCHANGED <<mode, eatIn, lines, takerOf, custOf, choice, tokenOf, ownerOf, sitWait,
                    orders, serving, kitchen, step, served>>
  BY DEF TakeOrder
<1> QED
  BY <1>1, <1>2, <1>6, <1>8, <1>90 DEF TakeOrderMove

GiveNumberMove(c, t) ==
    /\ c = custOf[t] /\ takerOf[c] = t
    /\ at[C(c)] = "paying" /\ at[T(t)] = "paid"
    /\ at' \in [Thread -> Place] /\ at'[C(c)] = "numbered" /\ at'[T(t)] = "noting"
    /\ OnlyMove({c}, {t}, {}, {})
    /\ busyWait' = [busyWait EXCEPT ![t] = <<>>]
    /\ choice[t] = OrderOf(c)
    /\ tokenOf' = [tokenOf EXCEPT ![c] = Len(ownerOf)]
    /\ ownerOf' = Append(ownerOf, c)
    /\ UNCHANGED <<mode, eatIn, lines, takerOf, custOf, choice, sitWait, orders,
                  serving, kitchen, step, served>>

LEMMA GiveNumberMoves ==
    ASSUME Shape, Paired, NEW t \in Taker, GiveNumber(t)
    PROVE  \E c \in Customer : GiveNumberMove(c, t)
<1> DEFINE c == custOf[t]
<1>1. c \in Customer /\ at[T(t)] = "paid"
  BY DEF GiveNumber, Is, Shape, Placed, Typed
<1>2. /\ takerOf[c] = t /\ at[C(c)] = "paying" /\ busyWait[t] = <<C(c)>>
      /\ choice[t] = OrderOf(c)
  BY <1>1 DEF Paired, PairedTaker, Is
<1>4. at' = SignalAndWait(T(t), "noting", <<C(c)>>)
  BY <1>2 DEF GiveNumber, SignalAndWait
<1>5. Woken[at[C(c)]] = "numbered" /\ "numbered" \in CustomerPlace /\ "noting" \in TakerPlace
  BY <1>2, WokenPlaces DEF TakerPlace, CustomerPlace, Inside
<1>6. /\ at' \in [Thread -> Place] /\ at'[C(c)] = "numbered" /\ at'[T(t)] = "noting"
      /\ OnlyMove({c}, {t}, {}, {})
  BY <1>1, <1>4, <1>5, TakerWakesCustomer
<1>7. DropFirst(busyWait[t]) = <<>>
  BY <1>2, ShortQueues
<1>8. busyWait' = [busyWait EXCEPT ![t] = <<>>]
  BY <1>7 DEF GiveNumber
<1>9. tokenOf' = [tokenOf EXCEPT ![c] = Len(ownerOf)] /\ ownerOf' = Append(ownerOf, c)
  BY DEF GiveNumber, orderNumCounter
<1>90. UNCHANGED <<mode, eatIn, lines, takerOf, custOf, choice, sitWait, orders, serving,
                    kitchen, step, served>>
  BY DEF GiveNumber
<1> QED
  BY <1>1, <1>2, <1>6, <1>8, <1>9, <1>90 DEF GiveNumberMove

\* Without the last of a queue.
LEMMA FrontQueue ==
    ASSUME NEW S, NEW q \in Seq(S), q # <<>>
    PROVE  /\ Last(q) \in S /\ Last(q) \in Range(q)
           /\ Front(q) \in Seq(S) /\ Range(Front(q)) \subseteq Range(q)
           /\ \A x \in Range(q) : x # Last(q) => x \in Range(Front(q))
           /\ IsInjective(q) => IsInjective(Front(q)) /\ Last(q) \notin Range(Front(q))
<1> DEFINE n == Len(q)
           f == Front(q)
<1>1. n \in Nat \ {0} /\ n \in 1..n /\ \A i \in 1..n : q[i] \in S
  BY EmptySeq, LenProperties, ElementOfSeq
<1>2. Range(q) = {q[i] : i \in 1..n}
  BY RangeEquality
<1>3. Last(q) = q[n]
  BY DEF Last
<1>4. f \in Seq(S) /\ Len(f) = n - 1 /\ \A i \in 1..n - 1 : f[i] = q[i]
  <2>1. 1 \in Int /\ n - 1 \in Int /\ \A i \in 1..n - 1 : q[i] \in S
    BY <1>1
  <2> HIDE DEF n
  <2>2. /\ SubSeq(q, 1, n - 1) \in Seq(S)
        /\ Len(SubSeq(q, 1, n - 1)) = IF 1 <= n - 1 THEN n - 1 - 1 + 1 ELSE 0
        /\ \A i \in 1..n - 1 - 1 + 1 : SubSeq(q, 1, n - 1)[i] = q[1 + i - 1]
    BY <2>1, SubSeqProperties
  <2>3. f = SubSeq(q, 1, n - 1)
    BY DEF Front, n
  <2> QED
    BY <1>1, <2>2, <2>3
<1>5. Range(f) = {f[i] : i \in 1..Len(f)}
  BY <1>4, RangeEquality
<1>6. Range(f) = {q[i] : i \in 1..n - 1}
  BY <1>4, <1>5
<1>7. DOMAIN q = 1..n /\ DOMAIN f = 1..n - 1
  BY <1>4, LenProperties
<1> HIDE DEF n, f
<1>8. Last(q) \in S /\ Last(q) \in Range(q)
  BY <1>1, <1>2, <1>3
<1>9. Range(f) \subseteq Range(q)
  BY <1>1, <1>2, <1>6
<1>10. \A x \in Range(q) : x # Last(q) => x \in Range(f)
  BY <1>1, <1>2, <1>3, <1>6
<1>11. ASSUME IsInjective(q)
       PROVE  IsInjective(f) /\ Last(q) \notin Range(f)
  <2>1. \A i, j \in 1..n : q[i] = q[j] => i = j
    BY <1>7, <1>11 DEF IsInjective
  <2>2. \A i, j \in 1..n - 1 : f[i] = f[j] => i = j
    BY <1>1, <1>4, <2>1
  <2>3. Last(q) \notin Range(f)
    BY <1>1, <1>3, <1>6, <2>1
  <2> QED
    BY <1>7, <2>2, <2>3 DEF IsInjective
<1> QED
  BY <1>4, <1>8, <1>9, <1>10, <1>11 DEF f

\* As many as there are customers.
LEMMA Customers ==
    IsFiniteSet(Customer) /\ Cardinality(Customer) = NumCustomers
<1>1. 0 \in Int /\ NumCustomers - 1 \in Int /\ NumCustomers >= 1
  OBVIOUS
<1> QED
  BY <1>1, FS_Interval DEF Customer

\* A line in which nobody stands twice is no longer than there are customers.
LEMMA ShortLine ==
    ASSUME NEW q \in Seq(Customer), IsInjective(q)
    PROVE  Len(q) \in Nat /\ Len(q) <= NumCustomers
<1>1. Len(q) \in Nat /\ DOMAIN q = 1..Len(q) /\ q \in [1..Len(q) -> Customer]
  BY LenProperties
<1>2. q \in Injection(1..Len(q), Customer)
  BY <1>1 DEF Injection, IsInjective
<1>3. Cardinality(1..Len(q)) <= Cardinality(Customer)
  BY <1>2, Customers, FS_Injection
<1>4. Cardinality(1..Len(q)) = Len(q)
  BY <1>1, FS_Interval
<1> QED
  BY <1>1, <1>3, <1>4, Customers

\* Numbers and their owners correspond.
LEMMA Owners ==
    ASSUME Shape, NumbersGiven
    PROVE  /\ Len(ownerOf) \in Nat /\ Len(ownerOf) <= NumCustomers
           /\ \A k \in Nat : k < Len(ownerOf) =>
                 Owner(k) \in Customer /\ at[C(Owner(k))] \in Numbered /\ tokenOf[Owner(k)] = k
           /\ \A c \in Customer : at[C(c)] \in Numbered =>
                 tokenOf[c] \in Token /\ tokenOf[c] < Len(ownerOf) /\ Owner(tokenOf[c]) = c
           /\ \A j, k \in Nat : j < Len(ownerOf) /\ k < Len(ownerOf) /\ Owner(j) = Owner(k)
                 => j = k
<1>1. ownerOf \in Seq(Customer) /\ IsInjective(ownerOf)
  BY DEF Shape, Placed, Typed, NumbersGiven
<1>2. Len(ownerOf) \in Nat /\ Len(ownerOf) <= NumCustomers
  BY <1>1, ShortLine
<1>3. Range(ownerOf) = {ownerOf[i] : i \in 1..Len(ownerOf)}
  BY <1>1, RangeEquality
<1>4. \A i \in 1..Len(ownerOf) : ownerOf[i] \in Customer /\ ownerOf[i] \in Range(ownerOf)
  BY <1>1, <1>3, ElementOfSeq
<1>5. ASSUME NEW k \in Nat, k < Len(ownerOf)
      PROVE  Owner(k) \in Customer /\ at[C(Owner(k))] \in Numbered /\ tokenOf[Owner(k)] = k
  <2>1. k + 1 \in 1..Len(ownerOf) /\ k + 1 - 1 = k
    BY <1>2, <1>5
  <2>2. Owner(k) \in Customer /\ Owner(k) \in Range(ownerOf)
    BY <1>4, <2>1 DEF Owner
  <2>3. tokenOf[Owner(k)] = k
    BY <2>1 DEF Owner, NumbersGiven
  <2> QED
    BY <2>2, <2>3 DEF NumbersGiven
<1>6. ASSUME NEW c \in Customer, at[C(c)] \in Numbered
      PROVE  tokenOf[c] \in Token /\ tokenOf[c] < Len(ownerOf) /\ Owner(tokenOf[c]) = c
  <2>1. PICK i \in 1..Len(ownerOf) : ownerOf[i] = c
    BY <1>3, <1>6 DEF NumbersGiven
  <2>2. tokenOf[c] = i - 1
    BY <2>1 DEF NumbersGiven
  <2>3. i - 1 \in Token /\ i - 1 < Len(ownerOf) /\ i - 1 + 1 = i
    BY <1>2 DEF Token
  <2> QED
    BY <2>1, <2>2, <2>3 DEF Owner
<1> QED
  BY <1>2, <1>5, <1>6

\* Once called, a customer and the taker wait for each other.
CallCustomerMove(c, t) ==
    /\ c = Last(toOrder) /\ toOrder # <<>> /\ toOrder' = Front(toOrder)
    /\ at[C(c)] = "waiting" /\ at[T(t)] = "ready"
    /\ at' \in [Thread -> Place] /\ at'[C(c)] = "called" /\ at'[T(t)] = "asking"
    /\ OnlyMove({c}, {t}, {}, {})
    /\ busyWait' = [busyWait EXCEPT ![t] = <<T(t)>>]
    /\ takerOf' = [takerOf EXCEPT ![c] = t]
    /\ custOf' = [custOf EXCEPT ![t] = c]
    /\ UNCHANGED <<mode, eatIn, toEnter, tables, choice, tokenOf, ownerOf, sitWait,
                  orders, serving, kitchen, step, served>>

LEMMA CallCustomerMoves ==
    ASSUME Shape, Paired, InLines, NEW t \in Taker, CallCustomer(t)
    PROVE  \E c \in Customer : CallCustomerMove(c, t)
<1> DEFINE c == Last(toOrder)
           moved == [at EXCEPT ![C(c)] = "called"]
<1>1. at[T(t)] = "ready" /\ toOrder # <<>> /\ toOrder \in Seq(Customer)
  BY DEF CallCustomer, Is, Shape, Placed, Typed
<1>2. c \in Customer /\ c \in Range(toOrder)
  BY <1>1, FrontQueue
<1>3. at[C(c)] = "waiting"
  BY <1>2 DEF InLines, Is
<1>4. busyWait[t] = <<>>
  BY <1>1 DEF Paired, PairedTaker
<1>5. C(c) \in Thread /\ T(t) \in Thread /\ T(t) # C(c)
      /\ "called" \in Place /\ "asking" \in Place /\ at \in [Thread -> Place]
  BY <1>2, Names DEF Shape, Placed, Typed, Place, Woken
<1>6. at' = [moved EXCEPT ![T(t)] = "asking"]
  BY DEF CallCustomer
<1>7. moved \in [Thread -> Place] /\ moved[C(c)] = "called"
      /\ \A z \in Thread : z # C(c) => moved[z] = at[z]
  BY <1>5
<1> HIDE DEF moved
<1>8. /\ at' \in [Thread -> Place] /\ at'[C(c)] = "called" /\ at'[T(t)] = "asking"
      /\ \A z \in Thread : z # C(c) /\ z # T(t) => at'[z] = at[z]
  BY <1>5, <1>6, <1>7
<1>9. OnlyMove({c}, {t}, {}, {})
  BY <1>8, OnlyCustomerAndTaker
<1>10. Append(busyWait[t], T(t)) = <<T(t)>>
  BY <1>4, ShortQueues
<1>11. /\ busyWait' = [busyWait EXCEPT ![t] = <<T(t)>>]
       /\ takerOf' = [takerOf EXCEPT ![c] = t] /\ custOf' = [custOf EXCEPT ![t] = c]
       /\ toOrder' = Front(toOrder)
  BY <1>10 DEF CallCustomer
<1>90. UNCHANGED <<mode, eatIn, toEnter, tables, choice, tokenOf, ownerOf, sitWait, orders,
                    serving, kitchen, step, served>>
  BY DEF CallCustomer
<1> QED
  BY <1>1, <1>2, <1>3, <1>8, <1>9, <1>11, <1>90 DEF CallCustomerMove

\* Who waits at the table, a customer who comes to wait wakes: the waiter or nobody.
LEMMA CustomerAtTable ==
    ASSUME Shape, TableQueues, NEW c \in Customer, at[C(c)] # "sitting",
           NEW p \in CustomerPlace, at' = SignalAndWait(C(c), p, sitWait[c])
    PROVE  /\ at' \in [Thread -> Place] /\ at'[C(c)] = p
           /\ \/ OnlyMove({c}, {}, {}, {}) /\ sitWait[c] = <<>>
              \/ \E w \in Waiter :
                   /\ at[W(w)] = "serving" /\ at'[W(w)] = "thanked"
                   /\ serving[w] < Len(ownerOf) /\ Owner(serving[w]) = c
                   /\ OnlyMove({c}, {}, {}, {w}) /\ sitWait[c] = <<W(w)>>
<1>1. CASE sitWait[c] = <<>>
  <2>1. Go(C(c), p)
    BY <1>1, MoveOnly DEF SignalAndWait
  <2> QED
    BY <1>1, <2>1, GoCustomer
<1>2. CASE sitWait[c] # <<>>
  <2>1. PICK w \in Waiter : /\ at[W(w)] = "serving" /\ serving[w] < Len(ownerOf)
                            /\ Owner(serving[w]) = c /\ sitWait[c] = <<W(w)>>
    BY <1>2 DEF TableQueues, TableOf, Is
  <2>2. Woken[at[W(w)]] = "thanked" /\ "thanked" \in WaiterPlace
    BY <2>1, WokenPlaces DEF WaiterPlace
  <2>3. at' = SignalAndWait(C(c), p, <<W(w)>>)
    BY <2>1
  <2>4. /\ at' \in [Thread -> Place] /\ at'[C(c)] = p /\ at'[W(w)] = "thanked"
        /\ OnlyMove({c}, {}, {}, {w})
    BY <2>2, <2>3, CustomerWakesWaiter
  <2> QED
    BY <2>1, <2>4
<1> QED
  BY <1>1, <1>2

SitDownMove(c) ==
    /\ at[C(c)] = "numbered" /\ eatIn[c]
    /\ at' \in [Thread -> Place] /\ at'[C(c)] = "sitting"
    /\ sitWait' = [sitWait EXCEPT ![c] = <<C(c)>>]
    /\ \/ OnlyMove({c}, {}, {}, {}) /\ sitWait[c] = <<>>
       \/ \E w \in Waiter :
            /\ at[W(w)] = "serving" /\ at'[W(w)] = "thanked"
            /\ serving[w] < Len(ownerOf) /\ Owner(serving[w]) = c
            /\ OnlyMove({c}, {}, {}, {w}) /\ sitWait[c] = <<W(w)>>
    /\ UNCHANGED <<mode, eatIn, lines, meeting, orders, serving, kitchen, step, served>>

LEMMA SitDownMoves ==
    ASSUME Shape, TableQueues, NEW c \in Customer, SitDown(c)
    PROVE  SitDownMove(c)
<1>1. at[C(c)] = "numbered" /\ eatIn[c] /\ at[C(c)] # "sitting"
  BY DEF SitDown, Is
<1>2. at' = SignalAndWait(C(c), "sitting", sitWait[c]) /\ "sitting" \in CustomerPlace
  BY DEF SitDown, CustomerPlace, Inside
<1>3. /\ at' \in [Thread -> Place] /\ at'[C(c)] = "sitting"
      /\ \/ OnlyMove({c}, {}, {}, {}) /\ sitWait[c] = <<>>
         \/ \E w \in Waiter :
              /\ at[W(w)] = "serving" /\ at'[W(w)] = "thanked"
              /\ serving[w] < Len(ownerOf) /\ Owner(serving[w]) = c
              /\ OnlyMove({c}, {}, {}, {w}) /\ sitWait[c] = <<W(w)>>
  BY <1>1, <1>2, CustomerAtTable
<1>4. Append(DropFirst(sitWait[c]), C(c)) = <<C(c)>>
  BY <1>3, ShortQueues
<1>5. sitWait' = [sitWait EXCEPT ![c] = <<C(c)>>]
  BY <1>4 DEF SitDown
<1>90. UNCHANGED <<mode, eatIn, lines, meeting, orders, serving, kitchen, step, served>>
  BY DEF SitDown
<1> QED
  BY <1>1, <1>3, <1>5, <1>90 DEF SitDownMove

EatMove(c) ==
    /\ at[C(c)] = "fed"
    /\ at' \in [Thread -> Place] /\ at'[C(c)] = "leaving"
    /\ sitWait' = [sitWait EXCEPT ![c] = <<>>]
    /\ \/ OnlyMove({c}, {}, {}, {}) /\ sitWait[c] = <<>>
       \/ \E w \in Waiter :
            /\ at[W(w)] = "serving" /\ at'[W(w)] = "thanked"
            /\ serving[w] < Len(ownerOf) /\ Owner(serving[w]) = c
            /\ OnlyMove({c}, {}, {}, {w}) /\ sitWait[c] = <<W(w)>>
    /\ UNCHANGED <<mode, eatIn, lines, meeting, orders, serving, kitchen, step, served>>

LEMMA EatMoves ==
    ASSUME Shape, TableQueues, NEW c \in Customer, Eat(c)
    PROVE  EatMove(c)
<1>1. at[C(c)] = "fed" /\ at[C(c)] # "sitting"
  BY DEF Eat, Is
<1>2. at' = SignalAndWait(C(c), "leaving", sitWait[c]) /\ "leaving" \in CustomerPlace
  BY DEF Eat, CustomerPlace, Inside, SignalAndWait
<1>3. /\ at' \in [Thread -> Place] /\ at'[C(c)] = "leaving"
      /\ \/ OnlyMove({c}, {}, {}, {}) /\ sitWait[c] = <<>>
         \/ \E w \in Waiter :
              /\ at[W(w)] = "serving" /\ at'[W(w)] = "thanked"
              /\ serving[w] < Len(ownerOf) /\ Owner(serving[w]) = c
              /\ OnlyMove({c}, {}, {}, {w}) /\ sitWait[c] = <<W(w)>>
  BY <1>1, <1>2, CustomerAtTable
<1>4. DropFirst(sitWait[c]) = <<>>
  BY <1>3, ShortQueues
<1>5. sitWait' = [sitWait EXCEPT ![c] = <<>>]
  BY <1>4 DEF Eat
<1>90. UNCHANGED <<mode, eatIn, lines, meeting, orders, serving, kitchen, step, served>>
  BY DEF Eat
<1> QED
  BY <1>1, <1>3, <1>5, <1>90 DEF EatMove

\* Two waiters do not serve the same customer.
LEMMA OneWaiter ==
    ASSUME Shape, NumbersGiven, OncePlaced, NEW v \in Waiter, NEW w \in Waiter,
           at[W(v)] \in {"carrying", "serving", "thanked"},
           at[W(w)] \in {"carrying", "serving", "thanked"},
           serving[v] < Len(ownerOf), serving[w] < Len(ownerOf),
           Owner(serving[v]) = Owner(serving[w])
    PROVE  v = w
<1>1. serving[v] \in Token /\ serving[w] \in Token /\ Token \subseteq Nat
  BY DEF Shape, Placed, Typed, Token
<1>2. serving[v] = serving[w]
  BY <1>1, Owners
<1>3. Holds(v, serving[v]) /\ Holds(w, serving[v])
  BY <1>2 DEF Holds
<1> QED
  BY <1>1, <1>3 DEF OncePlaced, Once

\* A waiter with an order finds at the table the customer, or nobody.
LEMMA WaiterAtTable ==
    ASSUME Shape, NumbersGiven, OncePlaced, PlacedIsGiven, OwnersFit, TableQueues,
           NEW w \in Waiter, at[W(w)] \in {"carrying", "thanked"},
           NEW p \in WaiterPlace, at' = SignalAndWait(W(w), p, sitWait[ServedBy(w)])
    PROVE  \E c \in Customer :
             /\ serving[w] \in Token /\ serving[w] < Len(ownerOf) /\ c = Owner(serving[w])
             /\ at' \in [Thread -> Place] /\ at'[W(w)] = p
             /\ \/ /\ at[C(c)] = "sitting" /\ at'[C(c)] = "fed" /\ sitWait[c] = <<C(c)>>
                   /\ OnlyMove({c}, {}, {}, {w})
                \/ /\ at[C(c)] # "sitting" /\ sitWait[c] = <<>>
                   /\ OnlyMove({}, {}, {}, {w})
<1> DEFINE k == serving[w]
           c == Owner(k)
<1>1. k \in Token /\ k \in Nat
  BY DEF Shape, Placed, Typed, Token
<1>2. k < Len(ownerOf)
  BY <1>1 DEF PlacedIsGiven, Given, Holds
<1>3. c \in Customer
  BY <1>1, <1>2, Owners
<1>4. ServedBy(w) = c
  BY DEF ServedBy, Owner
<1>5. CASE at[C(c)] = "sitting"
  <2>1. sitWait[c] = <<C(c)>>
    BY <1>3, <1>5 DEF TableQueues, TableOf, Is
  <2>2. Woken[at[C(c)]] = "fed" /\ "fed" \in CustomerPlace
    BY <1>5, WokenPlaces DEF CustomerPlace, Inside
  <2>3. at' = SignalAndWait(W(w), p, <<C(c)>>)
    BY <1>4, <2>1
  <2>4. /\ at' \in [Thread -> Place] /\ at'[W(w)] = p /\ at'[C(c)] = "fed"
        /\ OnlyMove({c}, {}, {}, {w})
    BY <1>3, <2>2, <2>3, WaiterWakesCustomer
  <2> QED
    BY <1>1, <1>2, <1>3, <1>5, <2>1, <2>4
<1>6. CASE at[C(c)] # "sitting"
  <2>1. sitWait[c] = <<>>
    <3>1. SUFFICES ASSUME NEW v \in Waiter, at[W(v)] = "serving", serving[v] < Len(ownerOf),
                          Owner(serving[v]) = c
                   PROVE  FALSE
      BY <1>3, <1>6 DEF TableQueues, TableOf, Is
    <3>2. v = w
      BY <1>2, <3>1, OneWaiter
    <3> QED
      BY <3>1, <3>2
  <2>2. Go(W(w), p)
    BY <1>4, <2>1, MoveOnly DEF SignalAndWait
  <2>3. at' \in [Thread -> Place] /\ at'[W(w)] = p /\ OnlyMove({}, {}, {}, {w})
    BY <2>2, GoWaiter
  <2> QED
    BY <1>1, <1>2, <1>3, <1>6, <2>1, <2>3
<1> QED
  BY <1>5, <1>6

ServeMove(c, w) ==
    /\ serving[w] \in Token /\ serving[w] < Len(ownerOf) /\ c = Owner(serving[w])
    /\ at[W(w)] = "carrying" /\ at' \in [Thread -> Place] /\ at'[W(w)] = "serving"
    /\ sitWait' = [sitWait EXCEPT ![c] = <<W(w)>>]
    /\ \/ /\ at[C(c)] = "sitting" /\ at'[C(c)] = "fed"
          /\ OnlyMove({c}, {}, {}, {w})
       \/ /\ at[C(c)] # "sitting" /\ OnlyMove({}, {}, {}, {w})
    /\ UNCHANGED <<mode, eatIn, lines, meeting, orders, serving, kitchen, step, served>>

LEMMA ServeMoves ==
    ASSUME Shape, NumbersGiven, OncePlaced, PlacedIsGiven, OwnersFit, TableQueues,
           NEW w \in Waiter, Serve(w)
    PROVE  \E c \in Customer : ServeMove(c, w)
<1>1. at[W(w)] = "carrying" /\ at' = SignalAndWait(W(w), "serving", sitWait[ServedBy(w)])
      /\ "serving" \in WaiterPlace
  BY DEF Serve, Is, WaiterPlace
<1>2. PICK c \in Customer :
             /\ serving[w] \in Token /\ serving[w] < Len(ownerOf) /\ c = Owner(serving[w])
             /\ at' \in [Thread -> Place] /\ at'[W(w)] = "serving"
             /\ \/ /\ at[C(c)] = "sitting" /\ at'[C(c)] = "fed" /\ sitWait[c] = <<C(c)>>
                   /\ OnlyMove({c}, {}, {}, {w})
                \/ /\ at[C(c)] # "sitting" /\ sitWait[c] = <<>>
                   /\ OnlyMove({}, {}, {}, {w})
  BY <1>1, WaiterAtTable
<1>3. Append(DropFirst(sitWait[c]), W(w)) = <<W(w)>> /\ ServedBy(w) = c
  BY <1>2, ShortQueues DEF ServedBy, Owner
<1>4. sitWait' = [sitWait EXCEPT ![c] = <<W(w)>>]
  BY <1>3 DEF Serve
<1>90. UNCHANGED <<mode, eatIn, lines, meeting, orders, serving, kitchen, step, served>>
  BY DEF Serve
<1> QED
  BY <1>1, <1>2, <1>4, <1>90 DEF ServeMove

FinishServingMove(c, w) ==
    /\ serving[w] \in Token /\ serving[w] < Len(ownerOf) /\ c = Owner(serving[w])
    /\ at[W(w)] = "thanked" /\ at' \in [Thread -> Place] /\ at'[W(w)] = "idle"
    /\ sitWait' = [sitWait EXCEPT ![c] = <<>>]
    /\ \/ /\ at[C(c)] = "sitting" /\ at'[C(c)] = "fed"
          /\ OnlyMove({c}, {}, {}, {w})
       \/ /\ at[C(c)] # "sitting" /\ OnlyMove({}, {}, {}, {w})
    /\ UNCHANGED <<mode, eatIn, lines, meeting, orders, serving, kitchen, step, served>>

LEMMA FinishServingMoves ==
    ASSUME Shape, NumbersGiven, OncePlaced, PlacedIsGiven, OwnersFit, TableQueues,
           NEW w \in Waiter, FinishServing(w)
    PROVE  \E c \in Customer : FinishServingMove(c, w)
<1>1. at[W(w)] = "thanked" /\ at' = SignalAndWait(W(w), "idle", sitWait[ServedBy(w)])
      /\ "idle" \in WaiterPlace
  BY DEF FinishServing, Is, WaiterPlace, SignalAndWait
<1>2. PICK c \in Customer :
             /\ serving[w] \in Token /\ serving[w] < Len(ownerOf) /\ c = Owner(serving[w])
             /\ at' \in [Thread -> Place] /\ at'[W(w)] = "idle"
             /\ \/ /\ at[C(c)] = "sitting" /\ at'[C(c)] = "fed" /\ sitWait[c] = <<C(c)>>
                   /\ OnlyMove({c}, {}, {}, {w})
                \/ /\ at[C(c)] # "sitting" /\ sitWait[c] = <<>>
                   /\ OnlyMove({}, {}, {}, {w})
  BY <1>1, WaiterAtTable
<1>3. DropFirst(sitWait[c]) = <<>> /\ ServedBy(w) = c
  BY <1>2, ShortQueues DEF ServedBy, Owner
<1>4. sitWait' = [sitWait EXCEPT ![c] = <<>>]
  BY <1>3 DEF FinishServing
<1>90. UNCHANGED <<mode, eatIn, lines, meeting, orders, serving, kitchen, step, served>>
  BY DEF FinishServing
<1> QED
  BY <1>1, <1>2, <1>4, <1>90 DEF FinishServingMove

\* A broadcast moves those of one kind that wait.
LEMMA CallWaiters ==
    ASSUME Shape, at' = CallAll(at, "waiter", "break", "idle")
    PROVE  /\ at' \in [Thread -> Place] /\ OnlyMove({}, {}, {}, Waiter)
           /\ \A w \in Waiter : at'[W(w)] = IF at[W(w)] = "break" THEN "idle" ELSE at[W(w)]
<1>1. at \in [Thread -> Place] /\ DOMAIN at = Thread /\ "idle" \in Place
  BY DEF Shape, Placed, Typed, Place
<1>2. at' = [z \in Thread |-> IF z[1] = "waiter" /\ at[z] = "break" THEN "idle" ELSE at[z]]
  BY <1>1 DEF CallAll
<1>3. at' \in [Thread -> Place]
      /\ \A z \in Thread : at'[z] = IF z[1] = "waiter" /\ at[z] = "break" THEN "idle" ELSE at[z]
  BY <1>1, <1>2
<1>4. \A c \in Customer : at'[C(c)] = at[C(c)]
  BY <1>3, Names, Kinds
<1>5. \A t \in Taker : at'[T(t)] = at[T(t)]
  BY <1>3, Names, Kinds
<1>6. \A i \in Food : at'[K(i)] = at[K(i)]
  BY <1>3, Names, Kinds
<1>7. \A w \in Waiter : at'[W(w)] = IF at[W(w)] = "break" THEN "idle" ELSE at[W(w)]
  BY <1>3, Names, Kinds
<1> QED
  BY <1>3, <1>4, <1>5, <1>6, <1>7 DEF OnlyMove

LEMMA CallListeners ==
    ASSUME Shape, at' = CallAll(at, "customer", "listening", "checking")
    PROVE  /\ at' \in [Thread -> Place] /\ OnlyMove(Customer, {}, {}, {})
           /\ \A c \in Customer :
                at'[C(c)] = IF at[C(c)] = "listening" THEN "checking" ELSE at[C(c)]
<1>1. at \in [Thread -> Place] /\ DOMAIN at = Thread /\ "checking" \in Place
  BY DEF Shape, Placed, Typed, Place
<1>2. at' = [z \in Thread |->
               IF z[1] = "customer" /\ at[z] = "listening" THEN "checking" ELSE at[z]]
  BY <1>1 DEF CallAll
<1>3. at' \in [Thread -> Place]
      /\ \A z \in Thread :
            at'[z] = IF z[1] = "customer" /\ at[z] = "listening" THEN "checking" ELSE at[z]
  BY <1>1, <1>2
<1>4. \A c \in Customer :
         at'[C(c)] = IF at[C(c)] = "listening" THEN "checking" ELSE at[C(c)]
  BY <1>3, Names, Kinds
<1>5. \A t \in Taker : at'[T(t)] = at[T(t)]
  BY <1>3, Names, Kinds
<1>6. \A i \in Food : at'[K(i)] = at[K(i)]
  BY <1>3, Names, Kinds
<1>7. \A w \in Waiter : at'[W(w)] = at[W(w)]
  BY <1>3, Names, Kinds
<1> QED
  BY <1>3, <1>4, <1>5, <1>6, <1>7 DEF OnlyMove

\* What bagging does to one order k: less is left to be bagged, or it is bagged and
\* carried or called.
LessLeft(k) ==
    /\ toBag' \in [Token -> SUBSET Nat]
    /\ toBag'[k] # {} /\ toBag'[k] \subseteq toBag[k]
    /\ \A j \in Token \ {k} : toBag'[j] = toBag[j]
    /\ bagged' = bagged /\ ready' = ready /\ at' = at

BaggedNow(k) ==
    /\ toBag' = [toBag EXCEPT ![k] = {}]
    /\ bagged' = Append(bagged, k) /\ ready' = ready /\ eatIn[Owner(k)]
    /\ at' \in [Thread -> Place] /\ OnlyMove({}, {}, {}, Waiter)
    /\ \A w \in Waiter : at'[W(w)] = IF at[W(w)] = "break" THEN "idle" ELSE at[W(w)]

CalledNow(k) ==
    /\ toBag' = [toBag EXCEPT ![k] = {}]
    /\ ready' = [ready EXCEPT ![k] = TRUE] /\ bagged' = bagged /\ ~eatIn[Owner(k)]
    /\ at' \in [Thread -> Place] /\ OnlyMove(Customer, {}, {}, {})
    /\ \A c \in Customer :
          at'[C(c)] = IF at[C(c)] = "listening" THEN "checking" ELSE at[C(c)]

BagOrderMove(t, k) ==
    /\ at[T(t)] = "bag" /\ InBag(k)
    /\ cooked' \in [Food -> Nat] /\ \A i \in Food : cooked'[i] <= cooked[i]
    /\ step' \in [Taker -> Nat] /\ \A s \in Taker \ {t} : step'[s] = step[s]
    /\ LessLeft(k) \/ BaggedNow(k) \/ CalledNow(k)
    /\ UNCHANGED <<mode, eatIn, lines, meeting, sitWait, serving, stock, onBreak, money,
                  served>>

LEMMA BagOrderMoves ==
    ASSUME Shape, NEW t \in Taker, BagOrder(t)
    PROVE  \E k \in Token : BagOrderMove(t, k)
<1> DEFINE k == Min(ToLookAt(t))
           put == {i \in toBag[k] \cap Food : cooked[i] > 0}
           left == toBag[k] \ put
           full == left \subseteq {0}
           inside == eatIn[ownerOf[k + 1]]
<1>1. at[T(t)] = "bag" /\ ToLookAt(t) # {}
  BY DEF BagOrder, Is
<1>2. ToLookAt(t) \in SUBSET Nat
  BY DEF ToLookAt, Token
<1>3. k \in ToLookAt(t)
  BY <1>1, <1>2, MinOfNat
<1>4. k \in Token /\ k \in Nat /\ toBag[k] # {}
  BY <1>3 DEF ToLookAt, Token
<1>5. /\ cooked' = [i \in Food |-> IF i \in put THEN cooked[i] - 1 ELSE cooked[i]]
      /\ toBag' = [toBag EXCEPT ![k] = IF full THEN {} ELSE left]
      /\ bagged' = IF full /\ inside THEN Append(bagged, k) ELSE bagged
      /\ ready' = IF full /\ ~inside THEN [ready EXCEPT ![k] = TRUE] ELSE ready
      /\ at' = IF ~full THEN at
               ELSE IF inside THEN CallAll(at, "waiter", "break", "idle")
               ELSE CallAll(at, "customer", "listening", "checking")
      /\ step' = [step EXCEPT ![t] = k + 1]
  BY DEF BagOrder
<1>6. left \subseteq toBag[k] /\ left \in SUBSET Nat /\ (~full => left # {})
  BY <1>4 DEF Shape, Placed, Typed
<1>7. inside <=> eatIn[Owner(k)]
  BY DEF Owner
<1>8. cooked' \in [Food -> Nat] /\ \A i \in Food : cooked'[i] <= cooked[i]
  <2>1. cooked \in [Food -> Nat]
    BY DEF Shape, Placed, Typed
  <2>2. \A i \in put : i \in Food /\ cooked[i] > 0
    OBVIOUS
  <2>3. \A i \in Food : cooked[i] \in Nat /\ (i \in put => cooked[i] - 1 \in Nat)
    BY <2>1, <2>2
  <2> HIDE DEF put
  <2> QED
    BY <1>5, <2>3
<1>90. UNCHANGED <<mode, eatIn, lines, meeting, sitWait, serving, stock, onBreak, money,
              served>>
  BY DEF BagOrder
<1> HIDE DEF k, left, full, inside, put
<1>9. step' \in [Taker -> Nat] /\ \A s \in Taker \ {t} : step'[s] = step[s]
  BY <1>4, <1>5 DEF Shape, Placed, Typed
<1>10. CASE ~full
  <2>1. LessLeft(k)
    BY <1>4, <1>5, <1>6, <1>10 DEF LessLeft, Shape, Placed, Typed
  <2> QED
    BY <1>1, <1>4, <1>8, <1>9, <1>90, <2>1 DEF InBag, BagOrderMove
<1>11. CASE full /\ inside
  <2>1. at' = CallAll(at, "waiter", "break", "idle")
    BY <1>5, <1>11
  <2>2. toBag' = [toBag EXCEPT ![k] = {}] /\ bagged' = Append(bagged, k) /\ ready' = ready
    BY <1>5, <1>11
  <2>3. BaggedNow(k)
    BY <1>7, <1>11, <2>1, <2>2, CallWaiters DEF BaggedNow
  <2> QED
    BY <1>1, <1>4, <1>8, <1>9, <1>90, <2>3 DEF InBag, BagOrderMove
<1>12. CASE full /\ ~inside
  <2>1. at' = CallAll(at, "customer", "listening", "checking")
    BY <1>5, <1>12
  <2>2. toBag' = [toBag EXCEPT ![k] = {}] /\ bagged' = bagged
        /\ ready' = [ready EXCEPT ![k] = TRUE]
    BY <1>5, <1>12
  <2>3. CalledNow(k)
    BY <1>7, <1>12, <2>1, <2>2, CallListeners DEF CalledNow
  <2> QED
    BY <1>1, <1>4, <1>8, <1>9, <1>90, <2>3 DEF InBag, BagOrderMove
<1> QED
  BY <1>10, <1>11, <1>12

\* The manager and the cooks.
LEMMA NextFoodPlace ==
    ASSUME Shape, LoopsBounded, at[T(Manager)] \in {"managing", "hiredOne"}
    PROVE  /\ Manager \in Taker /\ step[Manager] \in Food /\ NumFoods \in Nat
           /\ (IF step[Manager] < NumFoods THEN "managing" ELSE "seating") \in TakerPlace
<1>1. Manager \in Taker
  BY DEF Manager, Taker
<1>2. step[Manager] \in Food
  BY Zenon DEF LoopsBounded
<1>3. "managing" \in TakerPlace /\ "seating" \in TakerPlace /\ NumFoods \in Nat
  BY DEF TakerPlace
<1> QED
  BY <1>1, <1>2, <1>3

hireCookMove ==
    /\ Managed \in Food /\ TooLittle(Managed)
    /\ at[T(Manager)] = "managing" /\ at[K(Managed)] = "unhired"
    /\ at' \in [Thread -> Place] /\ at'[T(Manager)] = "hiring" /\ at'[K(Managed)] = "hired"
    /\ OnlyMove({}, {Manager}, {Managed}, {})
    /\ UNCHANGED <<mode, eatIn, lines, meeting, sitWait, orders, serving, kitchen, step,
                  served>>

LEMMA hireCookMoves ==
    ASSUME Shape, hireCook
    PROVE  hireCookMove
<1>1. /\ Managed \in Food /\ TooLittle(Managed)
      /\ at[T(Manager)] = "managing" /\ at[K(Managed)] = "unhired"
      /\ at' = [[at EXCEPT ![K(Managed)] = "hired"] EXCEPT ![T(Manager)] = "hiring"]
  BY DEF hireCook, Is
<1>2. "hired" \in CookPlace /\ "hiring" \in TakerPlace
  BY DEF CookPlace, TakerPlace
<1>90. UNCHANGED <<mode, eatIn, lines, meeting, sitWait, orders, serving, kitchen, step,
                    served>>
  BY DEF hireCook
<1> QED
  BY <1>1, <1>2, ManagerAndCook, <1>90 DEF hireCookMove

StartCookMove(i) ==
    /\ at[K(i)] = "hired"
    /\ at' \in [Thread -> Place] /\ at'[T(Manager)] = "hiredOne" /\ at'[K(i)] = "cooking"
    /\ OnlyMove({}, {Manager}, {i}, {})
    /\ UNCHANGED <<mode, eatIn, lines, meeting, sitWait, orders, serving, kitchen, step,
                  served>>

LEMMA StartCookMoves ==
    ASSUME Shape, NEW i \in Food, StartCook(i)
    PROVE  StartCookMove(i)
<1>1. /\ at[K(i)] = "hired"
      /\ at' = [[at EXCEPT ![K(i)] = "cooking"] EXCEPT ![T(Manager)] = "hiredOne"]
  BY DEF StartCook, Is
<1>2. "cooking" \in CookPlace /\ "hiredOne" \in TakerPlace
  BY DEF CookPlace, TakerPlace
<1>90. UNCHANGED <<mode, eatIn, lines, meeting, sitWait, orders, serving, kitchen, step,
                    served>>
  BY DEF StartCook
<1> QED
  BY <1>1, <1>2, ManagerAndCook, <1>90 DEF StartCookMove

CookIsHiredMove ==
    /\ at[T(Manager)] = "hiredOne" /\ Managed \in Food
    /\ at' \in [Thread -> Place]
    /\ at'[T(Manager)] = (IF Managed < NumFoods THEN "managing" ELSE "seating")
    /\ OnlyMove({}, {Manager}, {}, {})
    /\ step' = [step EXCEPT ![Manager] = Managed + 1]
    /\ UNCHANGED <<mode, eatIn, lines, meeting, sitWait, orders, serving, kitchen,
                  served>>

LEMMA CookIsHiredMoves ==
    ASSUME Shape, LoopsBounded, CookIsHired
    PROVE  CookIsHiredMove
<1>1. at[T(Manager)] = "hiredOne"
  BY DEF CookIsHired, Is
<1>2. Go(T(Manager), IF Managed < NumFoods THEN "managing" ELSE "seating")
      /\ step' = [step EXCEPT ![Manager] = Managed + 1]
  BY DEF CookIsHired, NextFood, Managed, Go
<1>3. Manager \in Taker /\ Managed \in Food
      /\ (IF Managed < NumFoods THEN "managing" ELSE "seating") \in TakerPlace
  BY <1>1, NextFoodPlace DEF Managed
<1> HIDE DEF Managed
<1>90. UNCHANGED <<mode, eatIn, lines, meeting, sitWait, orders, serving, kitchen, served>>
  BY DEF CookIsHired
<1> QED
  BY <1>1, <1>2, <1>3, GoTaker, <1>90 DEF CookIsHiredMove

manageCookMove ==
    /\ at[T(Manager)] = "managing" /\ Managed \in Food
    /\ TooLittle(Managed) => at[K(Managed)] # "unhired"
    /\ at' \in [Thread -> Place]
    /\ at'[T(Manager)] = (IF Managed < NumFoods THEN "managing" ELSE "seating")
    /\ IF TooLittle(Managed) /\ at[K(Managed)] = "break"
       THEN at'[K(Managed)] = "back" /\ OnlyMove({}, {Manager}, {Managed}, {})
       ELSE OnlyMove({}, {Manager}, {}, {})
    /\ step' = [step EXCEPT ![Manager] = Managed + 1]
    /\ onBreak' = [onBreak EXCEPT ![Managed] =
         IF TooLittle(Managed) THEN FALSE
         ELSE onBreak[Managed] \/ cooked[Managed] > MaxCooked]
    /\ UNCHANGED <<mode, eatIn, lines, meeting, sitWait, orders, serving, stock, cooked,
                  money, served>>

LEMMA manageCookMoves ==
    ASSUME Shape, LoopsBounded, manageCook
    PROVE  manageCookMove
<1> DEFINE p == IF Managed < NumFoods THEN "managing" ELSE "seating"
           wakes == TooLittle(Managed) /\ at[K(Managed)] = "break"
<1>1. at[T(Manager)] = "managing" /\ (TooLittle(Managed) => at[K(Managed)] # "unhired")
  BY DEF manageCook, Is
<1>2. Manager \in Taker /\ Managed \in Food /\ p \in TakerPlace
  BY <1>1, NextFoodPlace DEF Managed
<1>3. /\ step' = [step EXCEPT ![Manager] = Managed + 1]
      /\ onBreak' = [onBreak EXCEPT ![Managed] =
                IF TooLittle(Managed) THEN FALSE
                ELSE onBreak[Managed] \/ cooked[Managed] > MaxCooked]
  BY DEF manageCook, NextFood, Managed
<1>4. at' = [(IF wakes THEN [at EXCEPT ![K(Managed)] = "back"] ELSE at)
                EXCEPT ![T(Manager)] = p]
  BY DEF manageCook, NextFood, Managed, Is
<1>90. UNCHANGED <<mode, eatIn, lines, meeting, sitWait, orders, serving, stock, cooked,
                    money, served>>
  BY DEF manageCook
<1> HIDE DEF p
<1>5. CASE wakes
  <2>1. at' = [[at EXCEPT ![K(Managed)] = "back"] EXCEPT ![T(Manager)] = p]
    BY <1>4, <1>5
  <2>2. "back" \in CookPlace
    BY DEF CookPlace
  <2>3. /\ at' \in [Thread -> Place] /\ at'[T(Manager)] = p /\ at'[K(Managed)] = "back"
        /\ OnlyMove({}, {Manager}, {Managed}, {})
    BY <1>2, <2>1, <2>2, ManagerAndCook
  <2> QED
    BY <1>1, <1>2, <1>3, <1>5, <1>90, <2>3 DEF p, manageCookMove
<1>6. CASE ~wakes
  <2>1. Go(T(Manager), p)
    BY <1>4, <1>6 DEF Go
  <2>2. at' \in [Thread -> Place] /\ at'[T(Manager)] = p /\ OnlyMove({}, {Manager}, {}, {})
    BY <1>2, <2>1, GoTaker
  <2> QED
    BY <1>1, <1>2, <1>3, <1>6, <1>90, <2>2 DEF p, manageCookMove
<1> QED
  BY <1>5, <1>6

\* The last in the line is called in, or nobody is.
checkLineToEnterRestMove ==
    /\ at[T(Manager)] = "seating" /\ at' \in [Thread -> Place]
    /\ at'[T(Manager)] = "checkExit"
    /\ \/ OnlyMove({}, {Manager}, {}, {})
            /\ (tables' = tables \/ (tables > 0 /\ tables' = tables - 1))
       \/ \E c \in Customer :
            /\ at[C(c)] = "inLine" /\ at'[C(c)] = "entering"
            /\ OnlyMove({c}, {Manager}, {}, {})
            /\ tables > 0 /\ tables' = tables - 1
    /\ UNCHANGED <<mode, eatIn, toEnter, toOrder, meeting, sitWait, orders, serving,
                  kitchen, step, served>>

LEMMA checkLineToEnterRestMoves ==
    ASSUME Shape, checkLineToEnterRest
    PROVE  checkLineToEnterRestMove
<1> DEFINE seat == toEnter # <<>> /\ tables > 0
           c == Last(toEnter)
           called == IF seat THEN {C(c)} \cap {C(d) : d \in InLine} ELSE {}
<1>1. /\ at[T(Manager)] = "seating"
      /\ tables' = IF seat THEN tables - 1 ELSE tables
      /\ at' = [thread \in Thread |->
                  IF thread = T(Manager) THEN "checkExit"
                  ELSE IF thread \in called THEN "entering" ELSE at[thread]]
  BY DEF checkLineToEnterRest, Is
<1>2. Manager \in Taker /\ T(Manager) \in Thread
  BY Names DEF Manager, Taker
<1>3. at \in [Thread -> Place] /\ "checkExit" \in Place /\ "entering" \in Place
  BY DEF Shape, Placed, Typed, Place
<1>90. UNCHANGED <<mode, eatIn, toEnter, toOrder, meeting, sitWait, orders, serving,
                    kitchen, step, served>>
  BY DEF checkLineToEnterRest
<1> HIDE DEF called
<1>4. /\ at' \in [Thread -> Place] /\ at'[T(Manager)] = "checkExit"
      /\ \A z \in Thread : z # T(Manager) =>
            at'[z] = IF z \in called THEN "entering" ELSE at[z]
  BY <1>1, <1>2, <1>3
<1>5. CASE seat /\ c \in InLine
  <2>1. c \in Customer /\ at[C(c)] = "inLine" /\ called = {C(c)}
    BY <1>5 DEF called, InLine, Is
  <2>2. \A z \in Thread : z # C(c) /\ z # T(Manager) => at'[z] = at[z]
    BY <1>4, <2>1
  <2>3. OnlyMove({c}, {Manager}, {}, {})
    BY <2>2, OnlyCustomerAndTaker
  <2>4. at'[C(c)] = "entering"
    BY <1>4, <2>1, Names
  <2> QED
    BY <1>1, <1>4, <1>5, <1>90, <2>1, <2>3, <2>4 DEF checkLineToEnterRestMove
<1>6. CASE ~(seat /\ c \in InLine)
  <2>1. called = {}
    BY <1>6, Names DEF called
  <2>2. \A z \in Thread : z # T(Manager) => at'[z] = at[z]
    BY <1>4, <2>1
  <2>3. OnlyMove({}, {Manager}, {}, {})
    BY <2>2, Names DEF OnlyMove
  <2> QED
    BY <1>1, <1>4, <1>90, <2>3 DEF checkLineToEnterRestMove
<1> QED
  BY <1>5, <1>6

-----------------------------------------------------------------------------
(* Threads that move on their own *)

From(c, p, q) == at[C(c)] = p /\ at'[C(c)] = q

CustomerGoes(c) ==
    \/ StartCustomer(c) \/ JoinLineToEnter(c) \/ EnterRest(c) \/ JoinLineToOrder(c)
    \/ FreeTable(c) \/ CheckOrder(c) \/ LeaveRestaurant(c)

CustomerGoesMove(c) ==
    /\ at' \in [Thread -> Place] /\ OnlyMove({c}, {}, {}, {})
    /\ UNCHANGED <<mode, meeting, sitWait, toBag, bagged, serving, kitchen, step>>
    /\ \/ From(c, "new", "outside") \/ From(c, "new", "hungry")
       \/ From(c, "outside", "inLine") \/ From(c, "entering", "hungry")
       \/ From(c, "hungry", "waiting") \/ From(c, "leaving", "full")
       \/ /\ at[C(c)] = "numbered" /\ at[T(takerOf[c])] # "noting"
          /\ at'[C(c)] \in {"full", "listening"}
       \/ at[C(c)] = "checking" /\ at'[C(c)] \in {"full", "listening"}
       \/ From(c, "full", "gone")

LEMMA CustomerGoesMoves ==
    ASSUME Shape, NEW c \in Customer, CustomerGoes(c)
    PROVE  CustomerGoesMove(c)
<1>0. {"outside", "hungry", "inLine", "waiting", "full", "listening", "gone"}
         \subseteq CustomerPlace
  BY DEF CustomerPlace, Inside
<1>1. CASE StartCustomer(c)
  <2>1. PICK e \in BOOLEAN : Go(C(c), IF e THEN "outside" ELSE "hungry")
    BY <1>1 DEF StartCustomer, Typed, Shape
  <2> QED
    BY <1>0, <1>1, <2>1, GoCustomer DEF CustomerGoesMove, StartCustomer, Is, From, orders
<1>2. CASE JoinLineToEnter(c)
  BY <1>0, <1>2, GoCustomer DEF CustomerGoesMove, JoinLineToEnter, Is, From, orders
<1>3. CASE EnterRest(c)
  BY <1>0, <1>3, GoCustomer DEF CustomerGoesMove, EnterRest, Is, From, orders
<1>4. CASE JoinLineToOrder(c)
  BY <1>0, <1>4, GoCustomer DEF CustomerGoesMove, JoinLineToOrder, Is, From, orders
<1>5. CASE FreeTable(c)
  BY <1>0, <1>5, GoCustomer DEF CustomerGoesMove, FreeTable, Is, From, orders
<1>6. CASE CheckOrder(c)
  <2>1. Go(C(c), IF ready[tokenOf[c]] THEN "full" ELSE "listening")
    BY <1>6 DEF CheckOrder
  <2>2. /\ \/ at[C(c)] = "numbered" /\ at[T(takerOf[c])] # "noting"
           \/ at[C(c)] = "checking"
        /\ UNCHANGED <<mode, meeting, sitWait, toBag, bagged, serving, kitchen, step>>
    BY <1>6 DEF CheckOrder, Is, BusyFree
  <2>3. at' \in [Thread -> Place] /\ OnlyMove({c}, {}, {}, {})
        /\ at'[C(c)] \in {"full", "listening"}
    BY <1>0, <2>1, GoCustomer
  <2> QED
    BY <2>2, <2>3 DEF CustomerGoesMove
<1>7. CASE LeaveRestaurant(c)
  BY <1>0, <1>7, GoCustomer DEF CustomerGoesMove, LeaveRestaurant, Is, From, orders
<1> QED
  BY <1>1, <1>2, <1>3, <1>4, <1>5, <1>6, <1>7 DEF CustomerGoesMove, CustomerGoes

\* A taker who goes on alone and meets nobody.
TakerGoes(t) ==
    \/ StartTaker(t) \/ NobodyInLine(t) \/ StartBagging(t) \/ StopBagging(t) \/ Exit(t)
    \/ t = Manager /\ (LookAtLine \/ orderInventoryFood)

Alone == {"new", "ready", "looking", "bagging", "bag", "buying", "managing", "seating",
          "checkExit", "gone"}

TakerGoesMove(t) ==
    /\ at' \in [Thread -> Place] /\ OnlyMove({}, {t}, {}, {})
    /\ UNCHANGED <<mode, eatIn, lines, meeting, sitWait, orders, serving, cooked, onBreak,
                   served>>
    /\ at[T(t)] \in Alone /\ at'[T(t)] \in Alone

LEMMA TakerGoesMoves ==
    ASSUME Shape, NEW t \in Taker, TakerGoes(t)
    PROVE  TakerGoesMove(t)
<1>0. Alone \subseteq TakerPlace
  BY DEF TakerPlace, Alone
<1>1. CASE StartTaker(t)
  <2>1. Go(T(t), IF t = Manager THEN "looking" ELSE "ready") /\ at[T(t)] = "new"
    BY <1>1 DEF StartTaker, Is
  <2>2. UNCHANGED <<mode, eatIn, lines, meeting, sitWait, orders, serving, kitchen, served>>
    BY <1>1 DEF StartTaker
  <2>3. (IF t = Manager THEN "looking" ELSE "ready") \in Alone /\ "new" \in Alone
    BY DEF Alone
  <2> QED
    BY <1>0, <2>1, <2>2, <2>3, GoTaker DEF TakerGoesMove, kitchen
<1>2. CASE NobodyInLine(t)
  <2>1. Go(T(t), Serviced(t)) /\ at[T(t)] = "ready"
    BY <1>2 DEF NobodyInLine, Is
  <2>2. UNCHANGED <<mode, eatIn, lines, meeting, sitWait, orders, serving, kitchen, served>>
    BY <1>2 DEF NobodyInLine
  <2>3. Serviced(t) \in Alone /\ "ready" \in Alone
    BY DEF Alone, Serviced
  <2> QED
    BY <1>0, <2>1, <2>2, <2>3, GoTaker DEF TakerGoesMove, kitchen
<1>3. CASE StartBagging(t)
  <2>1. Go(T(t), "bag") /\ at[T(t)] = "bagging"
    BY <1>3 DEF StartBagging, Is
  <2>2. UNCHANGED <<mode, eatIn, lines, meeting, sitWait, orders, serving, kitchen, served>>
    BY <1>3 DEF StartBagging
  <2>3. "bag" \in Alone /\ "bagging" \in Alone
    BY DEF Alone
  <2> QED
    BY <1>0, <2>1, <2>2, <2>3, GoTaker DEF TakerGoesMove, kitchen
<1>4. CASE StopBagging(t)
  <2>1. Go(T(t), IF t = Manager THEN "buying" ELSE "checkExit") /\ at[T(t)] = "bag"
    BY <1>4 DEF StopBagging, Is
  <2>2. UNCHANGED <<mode, eatIn, lines, meeting, sitWait, orders, serving, kitchen, served>>
    BY <1>4 DEF StopBagging
  <2>3. (IF t = Manager THEN "buying" ELSE "checkExit") \in Alone /\ "bag" \in Alone
    BY DEF Alone
  <2> QED
    BY <1>0, <2>1, <2>2, <2>3, GoTaker DEF TakerGoesMove, kitchen
<1>5. CASE Exit(t)
  <2>1. /\ Go(T(t), IF shouldExit THEN "gone" ELSE IF t = Manager THEN "looking" ELSE "ready")
        /\ at[T(t)] = "checkExit"
    BY <1>5 DEF Exit, Is
  <2>2. UNCHANGED <<mode, eatIn, lines, meeting, sitWait, orders, serving, kitchen, served>>
    BY <1>5 DEF Exit
  <2>3. (IF shouldExit THEN "gone" ELSE IF t = Manager THEN "looking" ELSE "ready") \in Alone
        /\ "checkExit" \in Alone
    BY DEF Alone
  <2> QED
    BY <1>0, <2>1, <2>2, <2>3, GoTaker DEF TakerGoesMove, kitchen
<1>6. CASE t = Manager /\ LookAtLine
  <2>1. PICK p \in {"ready", "bagging"} : Go(T(t), p)
    BY <1>6 DEF LookAtLine
  <2>2. at[T(t)] = "looking"
        /\ UNCHANGED <<mode, eatIn, lines, meeting, sitWait, orders, serving, kitchen, served>>
    BY <1>6 DEF LookAtLine, Is
  <2>3. p \in Alone /\ "looking" \in Alone
    BY DEF Alone
  <2> QED
    BY <1>0, <2>1, <2>2, <2>3, GoTaker DEF TakerGoesMove, kitchen
<1>7. CASE t = Manager /\ orderInventoryFood
  <2>1. PICK p \in {"buying", "seating", "managing"} : Go(T(t), p)
    BY <1>7 DEF orderInventoryFood
  <2>2. at[T(t)] = "buying"
        /\ UNCHANGED <<mode, eatIn, lines, meeting, sitWait, orders, serving, cooked, onBreak,
                       served>>
    BY <1>7 DEF orderInventoryFood, Is
  <2>3. p \in Alone /\ "buying" \in Alone
    BY DEF Alone
  <2> QED
    BY <1>0, <2>1, <2>2, <2>3, GoTaker DEF TakerGoesMove, kitchen
<1> QED
  BY <1>1, <1>2, <1>3, <1>4, <1>5, <1>6, <1>7 DEF TakerGoesMove, TakerGoes

NoteOrderMove(t) ==
    /\ at' \in [Thread -> Place] /\ OnlyMove({}, {t}, {}, {})
    /\ at[T(t)] = "noting" /\ at'[T(t)] \in {"ready", "bagging"}
    /\ UNCHANGED <<mode, eatIn, lines, meeting, sitWait, ready, bagged, serving,
                  kitchen, served>>

LEMMA NoteOrderMoves ==
    ASSUME Shape, NEW t \in Taker, NoteOrder(t)
    PROVE  NoteOrderMove(t)
<1>1. Go(T(t), Serviced(t)) /\ at[T(t)] = "noting"
  BY DEF NoteOrder, Is
<1>2. Serviced(t) \in {"ready", "bagging"} /\ Serviced(t) \in TakerPlace
  BY DEF Serviced, TakerPlace
<1>90. UNCHANGED <<mode, eatIn, lines, meeting, sitWait, ready, bagged, serving, kitchen,
                    served>>
  BY DEF NoteOrder
<1> QED
  BY <1>1, <1>2, GoTaker, <1>90 DEF NoteOrderMove

CookGoes(i) == TakeBreak(i) \/ StartCooking(i) \/ FinishCooking(i) \/ ExitCook(i)

CookGoesMove(i) ==
    /\ at' \in [Thread -> Place] /\ OnlyMove({}, {}, {i}, {})
    /\ at'[K(i)] \in {"break", "stove", "checkExit", "gone", "cooking"}
    /\ UNCHANGED <<mode, eatIn, lines, meeting, sitWait, orders, serving, onBreak, money,
                   step, served>>

LEMMA CookGoesMoves ==
    ASSUME Shape, NEW i \in Food, CookGoes(i)
    PROVE  CookGoesMove(i)
<1>0. {"break", "stove", "checkExit", "gone", "cooking"} \subseteq CookPlace
  BY DEF CookPlace
<1>1. CASE TakeBreak(i)
  BY <1>0, <1>1, GoCook DEF CookGoesMove, TakeBreak, kitchen
<1>2. CASE StartCooking(i)
  <2>1. Go(K(i), IF stock[i] > 0 THEN "stove" ELSE "checkExit")
    BY <1>2 DEF StartCooking
  <2> QED
    BY <1>0, <1>2, <2>1, GoCook DEF CookGoesMove, StartCooking, kitchen
<1>3. CASE FinishCooking(i)
  BY <1>0, <1>3, GoCook DEF CookGoesMove, FinishCooking, kitchen
<1>4. CASE ExitCook(i)
  <2>1. Go(K(i), IF shouldExit THEN "gone" ELSE "cooking")
    BY <1>4 DEF ExitCook
  <2> QED
    BY <1>0, <1>4, <2>1, GoCook DEF CookGoesMove, ExitCook, kitchen
<1> QED
  BY <1>1, <1>2, <1>3, <1>4 DEF CookGoesMove, CookGoes

TakeBagMove(w) ==
    /\ at' \in [Thread -> Place] /\ OnlyMove({}, {}, {}, {w}) /\ at[W(w)] = "idle"
    /\ \/ at'[W(w)] = "break" /\ bagged' = bagged /\ serving' = serving
       \/ /\ at'[W(w)] = "carrying" /\ bagged # <<>>
          /\ serving' = [serving EXCEPT ![w] = Last(bagged)] /\ bagged' = Front(bagged)
    /\ UNCHANGED <<mode, eatIn, lines, meeting, sitWait, toBag, ready, kitchen, step, served>>

LEMMA TakeBagMoves ==
    ASSUME Shape, NEW w \in Waiter, TakeBag(w)
    PROVE  TakeBagMove(w)
<1>0. "break" \in WaiterPlace /\ "carrying" \in WaiterPlace
  BY DEF WaiterPlace
<1>90. UNCHANGED <<mode, eatIn, lines, meeting, sitWait, toBag, ready, kitchen, step, served>>
  BY DEF TakeBag
<1> QED
  BY <1>0, GoWaiter, <1>90 DEF TakeBag, Is, TakeBagMove

\* Every step, sorted by who moves.
LEMMA Steps ==
    ASSUME Next
    PROVE  \/ \E c \in Customer :
                CustomerGoes(c) \/ GiveOrder(c) \/ Pay(c) \/ SitDown(c) \/ Eat(c)
           \/ \E t \in Taker :
                \/ TakerGoes(t) \/ CallCustomer(t) \/ TakeOrder(t) \/ GiveNumber(t)
                \/ NoteOrder(t) \/ BagOrder(t)
           \/ hireCook \/ CookIsHired \/ manageCook \/ checkLineToEnterRest
           \/ \E i \in Food : CookGoes(i) \/ StartCook(i)
           \/ \E w \in Waiter : TakeBag(w) \/ Serve(w) \/ FinishServing(w)
<1>1. CASE \E c \in Customer : CustomerStep(c)
  BY <1>1 DEF CustomerStep, CustomerGoes
<1>2. CASE \E t \in Taker : TakerStep(t)
  BY <1>2 DEF TakerStep, TakerGoes
<1>3. CASE ManagerStep
  <2>1. Manager \in Taker
    BY DEF Manager, Taker
  <2> QED
    BY <1>3, <2>1 DEF ManagerStep, TakerGoes
<1>4. CASE \E i \in Food : CookStep(i)
  BY <1>4 DEF CookStep, CookGoes
<1>5. CASE \E w \in Waiter : WaiterStep(w)
  BY <1>5 DEF WaiterStep
<1> QED
  BY <1>1, <1>2, <1>3, <1>4, <1>5 DEF Next

-----------------------------------------------------------------------------
(* Everybody stays at places of their kind *)

LEMMA PlacedStep ==
    ASSUME IInv, Next
    PROVE  Placed'
<1>0. /\ Shape /\ Paired /\ InLines /\ LoopsBounded /\ NumbersGiven /\ OncePlaced
      /\ PlacedIsGiven /\ OwnersFit /\ TableQueues /\ Placed
  BY DEF IInv, Shape
<1>21. {"outside", "hungry", "inLine", "waiting", "full", "listening", "gone", "ordering",
        "paying", "sitting", "leaving", "called", "answered", "numbered", "entering", "fed",
        "checking"} \subseteq CustomerPlace
  BY DEF CustomerPlace, Inside
<1>22. /\ Manager \in Taker /\ Alone \subseteq TakerPlace
       /\ {"asked", "paid", "asking", "charging", "noting", "ready", "bagging", "hiring",
           "managing", "seating", "checkExit", "hiredOne"} \subseteq TakerPlace
  BY DEF Manager, Taker, Alone, TakerPlace
<1>23. {"break", "stove", "checkExit", "gone", "cooking", "hired", "back"} \subseteq CookPlace
  BY DEF CookPlace
<1>24. {"thanked", "idle", "serving", "break", "carrying"} \subseteq WaiterPlace
  BY DEF WaiterPlace
<1>1. ASSUME NEW c \in Customer, CustomerGoes(c)
      PROVE  Placed'
  <2>1. CustomerGoesMove(c)
    BY <1>0, <1>1, CustomerGoesMoves
  <2> QED
    BY <1>0, <1>21, <2>1 DEF CustomerGoesMove, OnlyMove, Placed, From
<1>2. ASSUME NEW c \in Customer, GiveOrder(c)
      PROVE  Placed'
  <2>1. PICK t \in Taker : GiveOrderMove(c, t)
    BY <1>0, <1>2, GiveOrderMoves
  <2> QED
    BY <1>0, <1>21, <1>22, <2>1 DEF GiveOrderMove, OnlyMove, Placed
<1>3. ASSUME NEW c \in Customer, Pay(c)
      PROVE  Placed'
  <2>1. PICK t \in Taker : PayMove(c, t)
    BY <1>0, <1>3, PayMoves
  <2> QED
    BY <1>0, <1>21, <1>22, <2>1 DEF PayMove, OnlyMove, Placed
<1>4. ASSUME NEW c \in Customer, SitDown(c)
      PROVE  Placed'
  <2>1. SitDownMove(c)
    BY <1>0, <1>4, SitDownMoves
  <2> QED
    BY <1>0, <1>21, <1>24, <2>1 DEF SitDownMove, OnlyMove, Placed
<1>5. ASSUME NEW c \in Customer, Eat(c)
      PROVE  Placed'
  <2>1. EatMove(c)
    BY <1>0, <1>5, EatMoves
  <2> QED
    BY <1>0, <1>21, <1>24, <2>1 DEF EatMove, OnlyMove, Placed
<1>6. ASSUME NEW t \in Taker, TakerGoes(t)
      PROVE  Placed'
  <2>1. TakerGoesMove(t)
    BY <1>0, <1>6, TakerGoesMoves
  <2> QED
    BY <1>0, <1>22, <2>1 DEF TakerGoesMove, OnlyMove, Placed
<1>7. ASSUME NEW t \in Taker, CallCustomer(t)
      PROVE  Placed'
  <2>1. PICK c \in Customer : CallCustomerMove(c, t)
    BY <1>0, <1>7, CallCustomerMoves
  <2> QED
    BY <1>0, <1>21, <1>22, <2>1 DEF CallCustomerMove, OnlyMove, Placed
<1>8. ASSUME NEW t \in Taker, TakeOrder(t)
      PROVE  Placed'
  <2>1. PICK c \in Customer : TakeOrderMove(c, t)
    BY <1>0, <1>8, TakeOrderMoves
  <2> QED
    BY <1>0, <1>21, <1>22, <2>1 DEF TakeOrderMove, OnlyMove, Placed
<1>9. ASSUME NEW t \in Taker, GiveNumber(t)
      PROVE  Placed'
  <2>1. PICK c \in Customer : GiveNumberMove(c, t)
    BY <1>0, <1>9, GiveNumberMoves
  <2> QED
    BY <1>0, <1>21, <1>22, <2>1 DEF GiveNumberMove, OnlyMove, Placed
<1>10. ASSUME NEW t \in Taker, NoteOrder(t)
      PROVE  Placed'
  <2>1. NoteOrderMove(t)
    BY <1>0, <1>10, NoteOrderMoves
  <2> QED
    BY <1>0, <1>22, <2>1 DEF NoteOrderMove, OnlyMove, Placed
<1>11. ASSUME NEW t \in Taker, BagOrder(t)
      PROVE  Placed'
  <2>1. PICK k \in Token : BagOrderMove(t, k)
    BY <1>0, <1>11, BagOrderMoves
  <2>2. CASE LessLeft(k)
    BY <1>0, <2>2 DEF LessLeft, Placed
  <2>3. CASE BaggedNow(k)
    BY <1>0, <1>24, <2>3 DEF BaggedNow, Placed, OnlyMove
  <2>4. CASE CalledNow(k)
    BY <1>0, <1>21, <2>4 DEF CalledNow, Placed, OnlyMove
  <2> QED
    BY <2>1, <2>2, <2>3, <2>4 DEF BagOrderMove
<1>12. ASSUME hireCook
      PROVE  Placed'
  <2>1. hireCookMove
    BY <1>0, <1>12, hireCookMoves
  <2> QED
    BY <1>0, <1>22, <1>23, <2>1 DEF hireCookMove, OnlyMove, Placed
<1>13. ASSUME CookIsHired
      PROVE  Placed'
  <2>1. CookIsHiredMove
    BY <1>0, <1>13, CookIsHiredMoves
  <2> QED
    BY <1>0, <1>22, <2>1 DEF CookIsHiredMove, OnlyMove, Placed
<1>14. ASSUME manageCook
      PROVE  Placed'
  <2>1. manageCookMove
    BY <1>0, <1>14, manageCookMoves
  <2> QED
    BY <1>0, <1>22, <1>23, <2>1 DEF manageCookMove, OnlyMove, Placed
<1>15. ASSUME checkLineToEnterRest
      PROVE  Placed'
  <2>1. checkLineToEnterRestMove
    BY <1>0, <1>15, checkLineToEnterRestMoves
  <2> QED
    BY <1>0, <1>21, <1>22, <2>1 DEF checkLineToEnterRestMove, OnlyMove, Placed
<1>16. ASSUME NEW i \in Food, CookGoes(i)
      PROVE  Placed'
  <2>1. CookGoesMove(i)
    BY <1>0, <1>16, CookGoesMoves
  <2> QED
    BY <1>0, <1>23, <2>1 DEF CookGoesMove, OnlyMove, Placed
<1>17. ASSUME NEW i \in Food, StartCook(i)
      PROVE  Placed'
  <2>1. StartCookMove(i)
    BY <1>0, <1>17, StartCookMoves
  <2> QED
    BY <1>0, <1>22, <1>23, <2>1 DEF StartCookMove, OnlyMove, Placed
<1>18. ASSUME NEW w \in Waiter, TakeBag(w)
      PROVE  Placed'
  <2>1. TakeBagMove(w)
    BY <1>0, <1>18, TakeBagMoves
  <2> QED
    BY <1>0, <1>24, <2>1 DEF TakeBagMove, OnlyMove, Placed
<1>19. ASSUME NEW w \in Waiter, Serve(w)
      PROVE  Placed'
  <2>1. PICK c \in Customer : ServeMove(c, w)
    BY <1>0, <1>19, ServeMoves
  <2> QED
    BY <1>0, <1>21, <1>24, <2>1 DEF ServeMove, OnlyMove, Placed
<1>20. ASSUME NEW w \in Waiter, FinishServing(w)
      PROVE  Placed'
  <2>1. PICK c \in Customer : FinishServingMove(c, w)
    BY <1>0, <1>20, FinishServingMoves
  <2> QED
    BY <1>0, <1>21, <1>24, <2>1 DEF FinishServingMove, OnlyMove, Placed
<1> QED
  BY <1>1, <1>2, <1>3, <1>4, <1>5, <1>6, <1>7, <1>8, <1>9, <1>10, <1>11, <1>12, <1>13,
     <1>14, <1>15, <1>16, <1>17, <1>18, <1>19, <1>20, Steps

-----------------------------------------------------------------------------
(* The variables keep their types *)

\* Everybody orders something.
LEMMA Orders ==
    ASSUME NEW c \in Customer
    PROVE  OrderOf(c) \subseteq Nat /\ OrderOf(c) # {}
<1>1. c % 5 \in {0, 1, 2, 3, 4}
  BY DEF Customer
<1>2. Menu(c % 5) \subseteq Nat /\ 0 \in Menu(c % 5)
  BY <1>1 DEF Menu
<1>3. 0 \in 0..NumFoods
  OBVIOUS
<1> QED
  BY <1>2, <1>3 DEF OrderOf

\* A line is shortened at its end; an empty one stays empty.
LEMMA ShorterLine ==
    ASSUME NEW S, NEW q \in Seq(S)
    PROVE  /\ SubSeq(q, 1, Len(q) - 1) \in Seq(S)
           /\ Range(SubSeq(q, 1, Len(q) - 1)) \subseteq Range(q)
           /\ IsInjective(q) => IsInjective(SubSeq(q, 1, Len(q) - 1))
<1>1. CASE q = <<>>
  <2>1. Len(q) = 0
    BY <1>1, EmptySeq
  <2>2. SubSeq(q, 1, Len(q) - 1) = <<>>
    BY <2>1, SubSeqEmpty
  <2> QED
    BY <1>1, <2>2
<1>2. CASE q # <<>>
  <2>1. SubSeq(q, 1, Len(q) - 1) = Front(q)
    BY DEF Front
  <2>2. /\ Front(q) \in Seq(S) /\ Range(Front(q)) \subseteq Range(q)
        /\ IsInjective(q) => IsInjective(Front(q))
    BY <1>2, FrontQueue
  <2> QED
    BY <2>1, <2>2, Zenon
<1> QED
  BY <1>1, <1>2

LEMMA QueuesOfOne ==
    /\ <<>> \in Seq(Thread)
    /\ \A x \in Thread : <<x>> \in Seq(Thread)
OBVIOUS

LEMMA TypedStep ==
    ASSUME IInv, Next
    PROVE  Typed'
<1>0. /\ Shape /\ Paired /\ InLines /\ LoopsBounded /\ NumbersGiven /\ OncePlaced
      /\ PlacedIsGiven /\ OwnersFit /\ TableQueues /\ Typed /\ InLines
  BY DEF IInv, Shape
<1>30. /\ eatIn \in [Customer -> BOOLEAN]
       /\ toEnter \in Seq(Customer) /\ toOrder \in Seq(Customer)
       /\ bagged \in Seq(Token) /\ ownerOf \in Seq(Customer)
       /\ tables \in Nat /\ served \in Nat /\ Manager \in Taker
  BY <1>0 DEF Typed, Manager, Taker
<1>1. ASSUME NEW c \in Customer, CustomerGoes(c)
      PROVE  Typed'
  <2>1. CustomerGoesMove(c)
    BY <1>0, <1>1, CustomerGoesMoves
  <2>2. CASE StartCustomer(c)
    <3>1. eatIn' \in [Customer -> BOOLEAN]
      BY <1>30, <2>2 DEF StartCustomer
    <3> QED
      BY <1>0, <2>2, <3>1 DEF StartCustomer, Typed, lines, meeting, orders, kitchen
  <2>3. CASE JoinLineToEnter(c)
    <3>1. toEnter' \in Seq(Customer)
      BY <1>30, <2>3, AppendQueue DEF JoinLineToEnter
    <3> QED
      BY <1>0, <2>3, <3>1 DEF JoinLineToEnter, Typed, meeting, orders, kitchen
  <2>4. CASE EnterRest(c)
    <3>1. toEnter' \in Seq(Customer)
      BY <1>30, <2>4, ShorterLine DEF EnterRest
    <3> QED
      BY <1>0, <2>4, <3>1 DEF EnterRest, Typed, meeting, orders, kitchen
  <2>5. CASE JoinLineToOrder(c)
    <3>1. toOrder' \in Seq(Customer)
      BY <1>30, <2>5, AppendQueue DEF JoinLineToOrder
    <3> QED
      BY <1>0, <2>5, <3>1 DEF JoinLineToOrder, Typed, meeting, orders, kitchen
  <2>6. CASE FreeTable(c)
    <3>1. tables' \in Nat
      BY <1>30, <2>6 DEF FreeTable
    <3> QED
      BY <1>0, <2>6, <3>1 DEF FreeTable, Typed, meeting, orders, kitchen
  <2>7. CASE CheckOrder(c)
    <3>1. ready' \in [Token -> BOOLEAN]
      BY <1>0, <2>7 DEF CheckOrder, Typed
    <3> QED
      BY <1>0, <2>7, <3>1 DEF CheckOrder, Typed, lines, meeting, kitchen
  <2>8. CASE LeaveRestaurant(c)
    <3>1. served' \in Nat
      BY <1>30, <2>8 DEF LeaveRestaurant
    <3> QED
      BY <1>0, <2>8, <3>1 DEF LeaveRestaurant, Typed, lines, meeting, orders, kitchen
  <2> QED
    BY <1>1, <2>2, <2>3, <2>4, <2>5, <2>6, <2>7, <2>8 DEF CustomerGoes
<1>2. ASSUME NEW c \in Customer, GiveOrder(c)
      PROVE  Typed'
  <2>1. PICK t \in Taker : GiveOrderMove(c, t)
    BY <1>0, <1>2, GiveOrderMoves
  <2>2. busyWait' \in [Taker -> Seq(Thread)]
    BY <1>0, <2>1, QueuesOfOne, Names DEF GiveOrderMove, Typed
  <2>3. choice' \in [Taker -> SUBSET Nat]
    BY <1>0, <2>1, Orders DEF GiveOrderMove, Typed
  <2> QED
    BY <1>0, <2>1, <2>2, <2>3 DEF GiveOrderMove, Typed, lines, meeting, orders, kitchen
<1>3. ASSUME NEW c \in Customer, Pay(c)
      PROVE  Typed'
  <2>1. PICK t \in Taker : PayMove(c, t)
    BY <1>0, <1>3, PayMoves
  <2>2. busyWait' \in [Taker -> Seq(Thread)]
    BY <1>0, <2>1, QueuesOfOne, Names DEF PayMove, Typed
  <2> QED
    BY <1>0, <2>1, <2>2 DEF PayMove, Typed, lines, meeting, orders, kitchen
<1>4. ASSUME NEW c \in Customer, SitDown(c)
      PROVE  Typed'
  <2>1. SitDownMove(c)
    BY <1>0, <1>4, SitDownMoves
  <2>2. sitWait' \in [Customer -> Seq(Thread)]
    BY <1>0, <2>1, QueuesOfOne, Names DEF SitDownMove, Typed
  <2> QED
    BY <1>0, <2>1, <2>2 DEF SitDownMove, Typed, lines, meeting, orders, kitchen
<1>5. ASSUME NEW c \in Customer, Eat(c)
      PROVE  Typed'
  <2>1. EatMove(c)
    BY <1>0, <1>5, EatMoves
  <2>2. sitWait' \in [Customer -> Seq(Thread)]
    BY <1>0, <2>1, QueuesOfOne, Names DEF EatMove, Typed
  <2> QED
    BY <1>0, <2>1, <2>2 DEF EatMove, Typed, lines, meeting, orders, kitchen
<1>6. ASSUME NEW t \in Taker, TakerGoes(t)
      PROVE  Typed'
  <2>1. TakerGoesMove(t)
    BY <1>0, <1>6, TakerGoesMoves
  <2>2. step' \in [Taker -> Nat]
    <3>1. step \in [Taker -> Nat]
      BY <1>0 DEF Typed
    <3> QED
      BY <1>6, <1>30, <3>1 DEF TakerGoes, StartTaker, NobodyInLine, StartBagging, StopBagging, Exit,
         LookAtLine, orderInventoryFood
  <2>3. stock' \in [0..NumFoods -> 0..NumBought] /\ money' \in Nat
    <3>1. CASE ~(t = Manager /\ orderInventoryFood)
      <4>1. stock' = stock /\ money' = money
        BY <1>6, <3>1 DEF TakerGoes, StartTaker, NobodyInLine, StartBagging, StopBagging, Exit,
           LookAtLine, kitchen
      <4> QED
        BY <1>0, <4>1 DEF Typed
    <3>2. CASE t = Manager /\ orderInventoryFood
      <4> DEFINE i == step[Manager]
                 cost == inventoryCost(i)
                 price == cost * NumBought
                 bank == IF money < price THEN cost * 2 * (NumBought + 5) ELSE 0
      <4>1. i \in 0..NumFoods /\ stock \in [0..NumFoods -> 0..NumBought] /\ money \in Nat
        BY <1>0, <3>2 DEF orderInventoryFood, LoopsBounded, Typed
      <4>2. /\ stock' = IF stock[i] <= 0 THEN [stock EXCEPT ![i] = @ + NumBought] ELSE stock
            /\ money' = IF stock[i] <= 0 THEN money + bank - price ELSE money
        BY <3>2, Zenon DEF orderInventoryFood
      <4>3. cost \in Nat /\ NumBought \in Nat
        BY <4>1 DEF inventoryCost
      <4>4. price \in Nat /\ cost * 2 * (NumBought + 5) \in Nat
            /\ price <= cost * 2 * (NumBought + 5)
        <5> HIDE DEF cost
        <5>1. cost * 2 * (NumBought + 5) = price + price + 10 * cost
          BY <4>3
        <5>2. price \in Nat
          BY <4>3
        <5> QED
          BY <4>3, <5>1, <5>2
      <4> HIDE DEF i, cost, price
      <4>5. money' \in Nat
        BY <4>1, <4>2, <4>4
      <4>6. stock' \in [0..NumFoods -> 0..NumBought]
        BY <4>1, <4>2, <4>3
      <4> QED
        BY <4>5, <4>6
    <3> QED
      BY <3>1, <3>2
  <2> QED
    BY <1>0, <2>1, <2>2, <2>3 DEF TakerGoesMove, Typed, lines, meeting, orders
<1>7. ASSUME NEW t \in Taker, CallCustomer(t)
      PROVE  Typed'
  <2>1. PICK c \in Customer : CallCustomerMove(c, t)
    BY <1>0, <1>7, CallCustomerMoves
  <2>2. busyWait' \in [Taker -> Seq(Thread)]
    BY <1>0, <1>7, <2>1, QueuesOfOne, Names DEF CallCustomerMove, Typed
  <2>3. toOrder' \in Seq(Customer)
    BY <1>30, <2>1, FrontQueue DEF CallCustomerMove
  <2>4. takerOf' \in [Customer -> Taker] /\ custOf' \in [Taker -> Customer]
    BY <1>0, <1>7, <2>1 DEF CallCustomerMove, Typed
  <2> QED
    BY <1>0, <2>1, <2>2, <2>3, <2>4 DEF CallCustomerMove, Typed, lines, meeting, orders, kitchen
<1>8. ASSUME NEW t \in Taker, TakeOrder(t)
      PROVE  Typed'
  <2>1. PICK c \in Customer : TakeOrderMove(c, t)
    BY <1>0, <1>8, TakeOrderMoves
  <2>2. busyWait' \in [Taker -> Seq(Thread)]
    BY <1>0, <2>1, QueuesOfOne, Names DEF TakeOrderMove, Typed
  <2> QED
    BY <1>0, <2>1, <2>2 DEF TakeOrderMove, Typed, lines, meeting, orders, kitchen
<1>9. ASSUME NEW t \in Taker, GiveNumber(t)
      PROVE  Typed'
  <2>1. PICK c \in Customer : GiveNumberMove(c, t)
    BY <1>0, <1>9, GiveNumberMoves
  <2>2. busyWait' \in [Taker -> Seq(Thread)]
    BY <1>0, <2>1, QueuesOfOne DEF GiveNumberMove, Typed
  <2>3. ownerOf' \in Seq(Customer)
    BY <1>30, <2>1, AppendQueue DEF GiveNumberMove
  <2>4. tokenOf' \in [Customer -> Nat]
    BY <1>0, <2>1, Owners DEF GiveNumberMove, Typed
  <2> QED
    BY <1>0, <2>1, <2>2, <2>3, <2>4 DEF GiveNumberMove, Typed, lines, meeting, orders, kitchen
<1>10. ASSUME NEW t \in Taker, NoteOrder(t)
      PROVE  Typed'
  <2>1. NoteOrderMove(t)
    BY <1>0, <1>10, NoteOrderMoves
  <2>2. toBag' \in [Token -> SUBSET Nat]
    BY <1>0, <1>10, <2>1 DEF NoteOrder, Typed
  <2>3. step' \in [Taker -> Nat]
    <3>1. step \in [Taker -> Nat] /\ step[t] \in Nat
      BY <1>0 DEF Typed
    <3>2. step' = [step EXCEPT ![t] = IF step[t] > 0 THEN step[t] - 1 ELSE 0]
      BY <1>10, Zenon DEF NoteOrder
    <3>3. (IF step[t] > 0 THEN step[t] - 1 ELSE 0) \in Nat
      BY <3>1
    <3> QED
      BY <3>1, <3>2, <3>3, Zenon
  <2> QED
    BY <1>0, <2>1, <2>2, <2>3 DEF NoteOrderMove, Typed, lines, meeting, orders, kitchen
<1>11. ASSUME NEW t \in Taker, BagOrder(t)
      PROVE  Typed'
  <2>1. PICK k \in Token : BagOrderMove(t, k)
    BY <1>0, <1>11, BagOrderMoves
  <2>2. toBag' \in [Token -> SUBSET Nat]
    BY <1>0, <2>1 DEF BagOrderMove, LessLeft, BaggedNow, CalledNow, Typed
  <2>3. bagged' \in Seq(Token)
    <3>1. bagged' = bagged \/ bagged' = Append(bagged, k)
      BY <2>1 DEF BagOrderMove, LessLeft, BaggedNow, CalledNow
    <3>2. Append(bagged, k) \in Seq(Token)
      BY <1>30, AppendQueue
    <3> QED
      BY <1>30, <3>1, <3>2, Zenon
  <2>4. ready' \in [Token -> BOOLEAN]
    BY <1>0, <2>1 DEF BagOrderMove, LessLeft, BaggedNow, CalledNow, Typed
  <2> QED
    BY <1>0, <2>1, <2>2, <2>3, <2>4 DEF BagOrderMove, Typed, lines, meeting
<1>12. ASSUME hireCook
      PROVE  Typed'
  <2>1. hireCookMove
    BY <1>0, <1>12, hireCookMoves
  <2> QED
    BY <1>0, <2>1 DEF hireCookMove, Typed, lines, meeting, orders, kitchen
<1>13. ASSUME CookIsHired
      PROVE  Typed'
  <2>1. CookIsHiredMove
    BY <1>0, <1>13, CookIsHiredMoves
  <2>2. step' \in [Taker -> Nat]
    <3>1. step \in [Taker -> Nat] /\ Managed + 1 \in Nat
      BY <1>0, <2>1 DEF CookIsHiredMove, Typed, Food
    <3>2. step' = [step EXCEPT ![Manager] = Managed + 1]
      BY <2>1 DEF CookIsHiredMove
    <3> QED
      BY <3>1, <3>2, Zenon
  <2> QED
    BY <1>0, <2>1, <2>2 DEF CookIsHiredMove, Typed, lines, meeting, orders, kitchen
<1>14. ASSUME manageCook
      PROVE  Typed'
  <2>1. manageCookMove
    BY <1>0, <1>14, manageCookMoves
  <2>2. step' \in [Taker -> Nat]
    <3>1. step \in [Taker -> Nat] /\ Managed + 1 \in Nat
      BY <1>0, <2>1 DEF manageCookMove, Typed, Food
    <3>2. step' = [step EXCEPT ![Manager] = Managed + 1]
      BY <2>1 DEF manageCookMove
    <3> QED
      BY <3>1, <3>2, Zenon
  <2>3. onBreak' \in [Food -> BOOLEAN]
    BY <1>0, <2>1, Zenon DEF manageCookMove, Typed
  <2> QED
    BY <1>0, <2>1, <2>2, <2>3 DEF manageCookMove, Typed, lines, meeting, orders, kitchen
<1>15. ASSUME checkLineToEnterRest
      PROVE  Typed'
  <2>1. checkLineToEnterRestMove
    BY <1>0, <1>15, checkLineToEnterRestMoves
  <2>2. tables' \in Nat
    <3>1. tables' = tables \/ (tables > 0 /\ tables' = tables - 1)
      BY <2>1, Zenon DEF checkLineToEnterRestMove
    <3> QED
      BY <1>30, <3>1
  <2> QED
    BY <1>0, <2>1, <2>2 DEF checkLineToEnterRestMove, Typed, lines, meeting, orders, kitchen
<1>16. ASSUME NEW i \in Food, CookGoes(i)
      PROVE  Typed'
  <2>1. CookGoesMove(i)
    BY <1>0, <1>16, CookGoesMoves
  <2>2. stock' \in [0..NumFoods -> 0..NumBought] /\ cooked' \in [Food -> Nat]
    <3>1. stock \in [0..NumFoods -> 0..NumBought] /\ cooked \in [Food -> Nat]
          /\ i \in 0..NumFoods /\ NumBought \in Nat
      BY <1>0 DEF Typed, Food
    <3>2. CASE TakeBreak(i) \/ ExitCook(i)
      BY <3>1, <3>2 DEF TakeBreak, ExitCook, kitchen
    <3>3. CASE StartCooking(i)
      BY <3>1, <3>3 DEF StartCooking
    <3>4. CASE FinishCooking(i)
      BY <3>1, <3>4 DEF FinishCooking
    <3> QED
      BY <1>16, <3>2, <3>3, <3>4 DEF CookGoes
  <2> QED
    BY <1>0, <2>1, <2>2 DEF CookGoesMove, Typed, lines, meeting, orders
<1>17. ASSUME NEW i \in Food, StartCook(i)
      PROVE  Typed'
  <2>1. StartCookMove(i)
    BY <1>0, <1>17, StartCookMoves
  <2> QED
    BY <1>0, <2>1 DEF StartCookMove, Typed, lines, meeting, orders, kitchen
<1>18. ASSUME NEW w \in Waiter, TakeBag(w)
      PROVE  Typed'
  <2>1. TakeBagMove(w)
    BY <1>0, <1>18, TakeBagMoves
  <2>2. bagged' \in Seq(Token) /\ serving' \in [Waiter -> Token]
    <3>1. serving \in [Waiter -> Token]
      BY <1>0 DEF Typed
    <3>2. CASE bagged # <<>> /\ serving' = [serving EXCEPT ![w] = Last(bagged)]
               /\ bagged' = Front(bagged)
      <4>1. Last(bagged) \in Token /\ Front(bagged) \in Seq(Token)
        BY <1>30, <3>2, FrontQueue
      <4> QED
        BY <3>1, <3>2, <4>1
    <3>3. CASE bagged' = bagged /\ serving' = serving
      BY <1>30, <3>1, <3>3
    <3> QED
      BY <2>1, <3>2, <3>3, Zenon DEF TakeBagMove
  <2> QED
    BY <1>0, <2>1, <2>2 DEF TakeBagMove, Typed, lines, meeting, orders, kitchen
<1>19. ASSUME NEW w \in Waiter, Serve(w)
      PROVE  Typed'
  <2>1. PICK c \in Customer : ServeMove(c, w)
    BY <1>0, <1>19, ServeMoves
  <2>2. sitWait' \in [Customer -> Seq(Thread)]
    BY <1>0, <2>1, QueuesOfOne, Names DEF ServeMove, Typed
  <2> QED
    BY <1>0, <2>1, <2>2 DEF ServeMove, Typed, lines, meeting, orders, kitchen
<1>20. ASSUME NEW w \in Waiter, FinishServing(w)
      PROVE  Typed'
  <2>1. PICK c \in Customer : FinishServingMove(c, w)
    BY <1>0, <1>20, FinishServingMoves
  <2>2. sitWait' \in [Customer -> Seq(Thread)]
    BY <1>0, <2>1, QueuesOfOne DEF FinishServingMove, Typed
  <2> QED
    BY <1>0, <2>1, <2>2 DEF FinishServingMove, Typed, lines, meeting, orders, kitchen
<1> QED
  BY <1>1, <1>2, <1>3, <1>4, <1>5, <1>6, <1>7, <1>8, <1>9, <1>10, <1>11, <1>12, <1>13,
     <1>14, <1>15, <1>16, <1>17, <1>18, <1>19, <1>20, Steps

-----------------------------------------------------------------------------
(* The kitchen *)

ManagerBusy == {"buying", "managing", "hiring", "hiredOne"}

\* What the manager counts on stays, and nothing is cooked or bought.
KitchenQuiet ==
    /\ \/ at'[T(Manager)] = at[T(Manager)] /\ step'[Manager] = step[Manager]
       \/ at[T(Manager)] \notin ManagerBusy /\ at'[T(Manager)] \notin ManagerBusy
    /\ \A i \in Food : at'[K(i)] = at[K(i)]
    /\ \A i \in Food : cooked'[i] <= cooked[i]
    /\ stock' = stock /\ onBreak' = onBreak

LEMMA KitchenSteps ==
    ASSUME IInv, Next
    PROVE  \/ KitchenQuiet
           \/ StopBagging(Manager) \/ orderInventoryFood \/ hireCook \/ CookIsHired
           \/ manageCook
           \/ \E i \in Food : CookGoes(i) \/ StartCook(i)
<1>0. /\ Shape /\ Paired /\ InLines /\ LoopsBounded /\ NumbersGiven /\ OncePlaced
      /\ PlacedIsGiven /\ OwnersFit /\ TableQueues
  BY DEF IInv, Shape
<1>30. Manager \in Taker /\ Food \subseteq Nat /\ \A i \in Food : cooked[i] <= cooked[i]
  <2>1. Manager \in Taker /\ Food \subseteq Nat
    BY DEF Manager, Taker, Food
  <2>2. \A i \in Food : cooked[i] \in Nat
    BY <1>0 DEF Shape, Typed
  <2> QED
    BY <2>1, <2>2
<1>1. ASSUME NEW c \in Customer, CustomerGoes(c)
      PROVE  KitchenQuiet
  <2>1. CustomerGoesMove(c)
    BY <1>0, <1>1, CustomerGoesMoves
  <2> QED
    BY <1>0, <1>30, <2>1 DEF CustomerGoesMove, OnlyMove, KitchenQuiet, ManagerBusy, kitchen
<1>2. ASSUME NEW c \in Customer, GiveOrder(c)
      PROVE  KitchenQuiet
  <2>1. PICK t \in Taker : GiveOrderMove(c, t)
    BY <1>0, <1>2, GiveOrderMoves
  <2> QED
    BY <1>0, <1>30, <2>1 DEF GiveOrderMove, OnlyMove, KitchenQuiet, ManagerBusy, kitchen
<1>3. ASSUME NEW c \in Customer, Pay(c)
      PROVE  KitchenQuiet
  <2>1. PICK t \in Taker : PayMove(c, t)
    BY <1>0, <1>3, PayMoves
  <2> QED
    BY <1>0, <1>30, <2>1 DEF PayMove, OnlyMove, KitchenQuiet, ManagerBusy, kitchen
<1>4. ASSUME NEW c \in Customer, SitDown(c)
      PROVE  KitchenQuiet
  <2>1. SitDownMove(c)
    BY <1>0, <1>4, SitDownMoves
  <2> QED
    BY <1>0, <1>30, <2>1 DEF SitDownMove, OnlyMove, KitchenQuiet, ManagerBusy, kitchen
<1>5. ASSUME NEW c \in Customer, Eat(c)
      PROVE  KitchenQuiet
  <2>1. EatMove(c)
    BY <1>0, <1>5, EatMoves
  <2> QED
    BY <1>0, <1>30, <2>1 DEF EatMove, OnlyMove, KitchenQuiet, ManagerBusy, kitchen
<1>6. ASSUME NEW t \in Taker, TakerGoes(t)
      PROVE  KitchenQuiet \/ StopBagging(Manager) \/ orderInventoryFood
  <2>1. TakerGoesMove(t)
    BY <1>0, <1>6, TakerGoesMoves
  <2>2. CASE t # Manager
    <3>1. at'[T(Manager)] = at[T(Manager)]
      BY <1>30, <2>1, <2>2 DEF TakerGoesMove, OnlyMove
    <3>2. step'[Manager] = step[Manager] /\ stock' = stock
      <4>1. step \in [Taker -> Nat]
        BY <1>0 DEF Shape, Typed
      <4> QED
        BY <1>6, <1>30, <2>2, <4>1 DEF TakerGoes, StartTaker, NobodyInLine, StartBagging,
           StopBagging, Exit, kitchen
    <3> QED
      BY <1>30, <2>1, <3>1, <3>2 DEF TakerGoesMove, OnlyMove, KitchenQuiet
  <2>3. CASE t = Manager /\ ~StopBagging(t) /\ ~orderInventoryFood
    <3>1. at[T(t)] \notin ManagerBusy /\ stock' = stock
      BY <1>6, <2>3 DEF TakerGoes, StartTaker, NobodyInLine, StartBagging, Exit, LookAtLine,
         Is, ManagerBusy, kitchen
    <3>2. at'[T(t)] \notin ManagerBusy
      <4>1. T(t) \in Thread /\ at \in [Thread -> Place]
        BY <1>0, Names DEF Shape, Placed
      <4>2. PICK p \in {"looking", "ready", "bagging", "bag", "gone"} : Go(T(t), p)
        BY <1>6, <2>3 DEF TakerGoes, StartTaker, NobodyInLine, StartBagging, Exit, LookAtLine,
           Serviced
      <4> QED
        BY <4>1, <4>2 DEF Go, ManagerBusy
    <3> QED
      BY <1>30, <2>1, <2>3, <3>1, <3>2 DEF TakerGoesMove, OnlyMove, KitchenQuiet
  <2> QED
    BY <2>2, <2>3
<1>7. ASSUME NEW t \in Taker, CallCustomer(t)
      PROVE  KitchenQuiet
  <2>1. PICK c \in Customer : CallCustomerMove(c, t)
    BY <1>0, <1>7, CallCustomerMoves
  <2> QED
    BY <1>0, <1>30, <2>1 DEF CallCustomerMove, OnlyMove, KitchenQuiet, ManagerBusy, kitchen
<1>8. ASSUME NEW t \in Taker, TakeOrder(t)
      PROVE  KitchenQuiet
  <2>1. PICK c \in Customer : TakeOrderMove(c, t)
    BY <1>0, <1>8, TakeOrderMoves
  <2> QED
    BY <1>0, <1>30, <2>1 DEF TakeOrderMove, OnlyMove, KitchenQuiet, ManagerBusy, kitchen
<1>9. ASSUME NEW t \in Taker, GiveNumber(t)
      PROVE  KitchenQuiet
  <2>1. PICK c \in Customer : GiveNumberMove(c, t)
    BY <1>0, <1>9, GiveNumberMoves
  <2> QED
    BY <1>0, <1>30, <2>1 DEF GiveNumberMove, OnlyMove, KitchenQuiet, ManagerBusy, kitchen
<1>10. ASSUME NEW t \in Taker, NoteOrder(t)
      PROVE  KitchenQuiet
  <2>1. NoteOrderMove(t)
    BY <1>0, <1>10, NoteOrderMoves
  <2>2. t # Manager => step'[Manager] = step[Manager]
    <3>1. step \in [Taker -> Nat]
      BY <1>0 DEF Shape, Typed
    <3> QED
      BY <1>10, <1>30, <3>1 DEF NoteOrder
  <2> QED
    BY <1>30, <2>1, <2>2 DEF NoteOrderMove, OnlyMove, KitchenQuiet, ManagerBusy, kitchen
<1>11. ASSUME NEW t \in Taker, BagOrder(t)
      PROVE  KitchenQuiet
  <2>1. PICK k \in Token : BagOrderMove(t, k)
    BY <1>0, <1>11, BagOrderMoves
  <2>2. at'[T(Manager)] = at[T(Manager)] /\ \A i \in Food : at'[K(i)] = at[K(i)]
    BY <1>30, <2>1 DEF BagOrderMove, LessLeft, BaggedNow, CalledNow, OnlyMove
  <2>3. step'[Manager] = step[Manager] \/ at[T(Manager)] = "bag"
    BY <1>30, <2>1 DEF BagOrderMove
  <2>4. stock' = stock /\ onBreak' = onBreak /\ \A i \in Food : cooked'[i] <= cooked[i]
    BY <2>1 DEF BagOrderMove
  <2> QED
    BY <2>2, <2>3, <2>4 DEF KitchenQuiet, ManagerBusy
<1>12. ASSUME checkLineToEnterRest
      PROVE  KitchenQuiet
  <2>1. checkLineToEnterRestMove
    BY <1>0, <1>12, checkLineToEnterRestMoves
  <2> QED
    BY <1>0, <1>30, <2>1 DEF checkLineToEnterRestMove, OnlyMove, KitchenQuiet, ManagerBusy, kitchen
<1>13. ASSUME NEW w \in Waiter, TakeBag(w)
      PROVE  KitchenQuiet
  <2>1. TakeBagMove(w)
    BY <1>0, <1>13, TakeBagMoves
  <2> QED
    BY <1>0, <1>30, <2>1 DEF TakeBagMove, OnlyMove, KitchenQuiet, ManagerBusy, kitchen
<1>14. ASSUME NEW w \in Waiter, Serve(w)
      PROVE  KitchenQuiet
  <2>1. PICK c \in Customer : ServeMove(c, w)
    BY <1>0, <1>14, ServeMoves
  <2> QED
    BY <1>0, <1>30, <2>1 DEF ServeMove, OnlyMove, KitchenQuiet, ManagerBusy, kitchen
<1>15. ASSUME NEW w \in Waiter, FinishServing(w)
      PROVE  KitchenQuiet
  <2>1. PICK c \in Customer : FinishServingMove(c, w)
    BY <1>0, <1>15, FinishServingMoves
  <2> QED
    BY <1>0, <1>30, <2>1 DEF FinishServingMove, OnlyMove, KitchenQuiet, ManagerBusy, kitchen
<1> QED
  BY <1>1, <1>2, <1>3, <1>4, <1>5, <1>6, <1>7, <1>8, <1>9, <1>10, <1>11, <1>12, <1>13, <1>14, <1>15,
     Steps

LEMMA LoopsStep ==
    ASSUME IInv, Next
    PROVE  LoopsBounded'
<1>0. /\ Shape /\ LoopsBounded /\ NumFoods \in Nat /\ Manager \in Taker
      /\ at \in [Thread -> Place] /\ step \in [Taker -> Nat]
  <2>1. Manager \in Taker
    BY DEF Manager, Taker
  <2> QED
    BY <2>1 DEF IInv, Shape, Placed, Typed
<1>1. CASE KitchenQuiet
  BY <1>0, <1>1 DEF KitchenQuiet, ManagerBusy, LoopsBounded, Is
<1>2. CASE StopBagging(Manager)
  <2>1. Is(T(Manager), "bag") /\ Go(T(Manager), "buying")
    BY <1>2 DEF StopBagging
  <2>2. at'[T(Manager)] = "buying" /\ OnlyMove({}, {Manager}, {}, {})
    <3>1. "buying" \in TakerPlace
      BY DEF TakerPlace
    <3> QED
      BY <1>0, <2>1, <3>1, GoTaker
  <2>3. step' = [step EXCEPT ![Manager] = 0]
    BY <1>2 DEF StopBagging
  <2>4. step'[Manager] = 0
    BY <1>0, <2>3
  <2>5. 0 \in 0..NumFoods
    BY <1>0
  <2> QED
    BY <1>0, <2>1, <2>2, <2>4, <2>5 DEF LoopsBounded, Is, OnlyMove
<1>3. CASE orderInventoryFood
  <2> DEFINE i == step[Manager]
             p == IF i < NumFoods THEN "buying"
                  ELSE IF NumFoods = 0 THEN "seating" ELSE "managing"
             n == IF i < NumFoods THEN i + 1 ELSE 1
  <2>1. Is(T(Manager), "buying") /\ Go(T(Manager), p) /\ step' = [step EXCEPT ![Manager] = n]
    BY <1>3, Zenon DEF orderInventoryFood
  <2>2. i \in 0..NumFoods
    BY <1>0, <2>1 DEF LoopsBounded
  <2>3. at'[T(Manager)] = p /\ OnlyMove({}, {Manager}, {}, {})
    <3>1. p \in TakerPlace
      BY DEF TakerPlace
    <3> QED
      BY <1>0, <2>1, <3>1, GoTaker
  <2>4. step'[Manager] = n
    BY <1>0, <2>1
  <2>5. /\ p = "buying" => n \in 0..NumFoods
        /\ p \in {"managing", "hiring", "hiredOne"} => n \in Food
        /\ p # "hiring"
    BY <1>0, <2>2 DEF Food
  <2> HIDE DEF p, n
  <2> QED
    BY <1>0, <2>1, <2>3, <2>4, <2>5 DEF LoopsBounded, Is, OnlyMove
<1>4. CASE hireCook
  <2>1. hireCookMove
    BY <1>0, <1>4, hireCookMoves
  <2> QED
    BY <1>0, <2>1 DEF hireCookMove, LoopsBounded, Is, OnlyMove, Managed
<1>5. CASE CookIsHired \/ manageCook
  <2> DEFINE i == step[Manager]
             p == IF i < NumFoods THEN "managing" ELSE "seating"
  <2>1. /\ at[T(Manager)] \in {"hiredOne", "managing"} /\ at'[T(Manager)] = p
        /\ step' = [step EXCEPT ![Manager] = i + 1]
        /\ \A j \in Food : at'[K(j)] = "hired" => at[K(j)] = "hired"
    <3>1. CASE CookIsHired
      BY <1>0, <3>1, CookIsHiredMoves DEF CookIsHiredMove, OnlyMove, Managed
    <3>2. CASE manageCook
      BY <1>0, <3>2, manageCookMoves DEF manageCookMove, OnlyMove, Managed
    <3> QED
      BY <1>5, <3>1, <3>2
  <2>2. i \in Food /\ step'[Manager] = i + 1
    BY <1>0, <2>1 DEF LoopsBounded
  <2>3. p = "managing" => i + 1 \in Food
    BY <1>0, <2>2 DEF Food
  <2>4. p \in {"managing", "seating"}
    OBVIOUS
  <2> HIDE DEF p
  <2> QED
    BY <1>0, <2>1, <2>2, <2>3, <2>4 DEF LoopsBounded, Is
<1>6. ASSUME NEW i \in Food, CookGoes(i)
      PROVE  LoopsBounded'
  <2>1. CookGoesMove(i)
    BY <1>0, <1>6, CookGoesMoves
  <2> QED
    BY <1>0, <2>1 DEF CookGoesMove, LoopsBounded, Is, OnlyMove
<1>7. ASSUME NEW i \in Food, StartCook(i)
      PROVE  LoopsBounded'
  <2>1. StartCookMove(i)
    BY <1>0, <1>7, StartCookMoves
  <2> QED
    BY <1>0, <2>1 DEF StartCookMove, LoopsBounded, Is, OnlyMove
<1> QED
  BY <1>1, <1>2, <1>3, <1>4, <1>5, <1>6, <1>7, KitchenSteps

\* What is cooked stays bounded if no more is supplied.
LEMMA FoodFrame ==
    ASSUME Shape, KitchenBounded, NEW i \in Food,
           cooked'[i] \in Nat, stock'[i] \in Nat, stock[i] \in Nat, onBreak'[i] = onBreak[i],
           Supply(i)' <= Supply(i),
           \/ cooked'[i] + Stove(i)' <= cooked[i] + Stove(i)
           \/ ~onBreak[i],
           at'[K(i)] = "back" => at[K(i)] = "back" /\ cooked'[i] <= cooked[i],
           at'[K(i)] = "unhired" => at[K(i)] = "unhired" /\ cooked'[i] <= cooked[i],
           Unseen(i) => Unseen(i)'
    PROVE  FoodBounded(i)'
<1>1. cooked[i] \in Nat /\ FoodBounded(i) /\ MinCooked \in Nat /\ MaxCooked \in Nat
      /\ NumBought \in Nat
  BY DEF KitchenBounded, Shape, Typed
<1>2. Stove(i) \in {0, 1} /\ Stove(i)' \in {0, 1}
  BY DEF Stove
<1>3. at'[K(i)] = "back" => ~onBreak'[i] /\ cooked'[i] < MinCooked
  BY <1>1 DEF FoodBounded, Is
<1>4. at'[K(i)] = "unhired" => cooked'[i] = 0
  BY <1>1 DEF FoodBounded, Is
<1>5. ~onBreak[i] => Supply(i) <= MaxCooked + 1 + NumBought
                                      + (IF Unseen(i) THEN NumBought ELSE 0)
  BY <1>1 DEF FoodBounded
<1>6. Supply(i) = cooked[i] + Stove(i) + stock[i]
      /\ Supply(i)' = cooked'[i] + Stove(i)' + stock'[i]
  BY DEF Supply
<1>7. cooked[i] + Stove(i) <= MaxCooked + 1 + 2 * NumBought
  BY <1>1 DEF FoodBounded
<1>8. ~onBreak'[i] => Supply(i)' <= MaxCooked + 1 + NumBought
                                        + (IF Unseen(i)' THEN NumBought ELSE 0)
  BY <1>1, <1>2, <1>5, <1>6
<1>9. cooked'[i] + Stove(i)' <= MaxCooked + 1 + 2 * NumBought
  BY <1>1, <1>2, <1>6, <1>7, <1>8
<1> QED
  BY <1>3, <1>4, <1>8, <1>9 DEF FoodBounded, Is

\* What is not touched stays so.
LEMMA FoodSame ==
    ASSUME Shape, KitchenBounded, NEW i \in Food, cooked'[i] \in Nat, cooked'[i] <= cooked[i],
           stock'[i] = stock[i], onBreak'[i] = onBreak[i], at'[K(i)] = at[K(i)],
           Unseen(i) => Unseen(i)'
    PROVE  FoodBounded(i)'
<1>1. cooked[i] \in Nat /\ stock[i] \in Nat
  BY DEF Shape, Typed, Food
<1>2. Stove(i) \in {0, 1} /\ Stove(i)' = Stove(i)
  BY DEF Stove, Is
<1>3. Supply(i)' <= Supply(i) /\ cooked'[i] + Stove(i)' <= cooked[i] + Stove(i)
  BY <1>1, <1>2 DEF Supply
<1> QED
  BY <1>1, <1>3, FoodFrame

LEMMA KitchenStep ==
    ASSUME IInv, Next
    PROVE  KitchenBounded'
<1>0. /\ Shape /\ LoopsBounded /\ KitchenBounded /\ NumFoods \in Nat /\ Manager \in Taker
      /\ at \in [Thread -> Place] /\ step \in [Taker -> Nat]
  <2>1. Manager \in Taker
    BY DEF Manager, Taker
  <2> QED
    BY <2>1 DEF IInv, Shape, Placed, Typed
<1>10. \A i \in Food :
          /\ i \in Nat /\ 1 <= i /\ i <= NumFoods /\ i \in 0..NumFoods
          /\ cooked[i] \in Nat /\ cooked'[i] \in Nat
          /\ stock[i] \in Nat /\ stock'[i] \in Nat /\ stock[i] <= NumBought
  <2>1. Typed'
    BY TypedStep
  <2>2. Food \subseteq Nat /\ \A i \in Food : 1 <= i /\ i <= NumFoods /\ i \in 0..NumFoods
    BY <1>0 DEF Food
  <2>3. /\ stock \in [0..NumFoods -> 0..NumBought] /\ cooked \in [Food -> Nat]
        /\ stock' \in [0..NumFoods -> 0..NumBought] /\ cooked' \in [Food -> Nat]
    BY <1>0, <2>1 DEF Shape, Typed
  <2> QED
    BY <2>2, <2>3
<1>11. MinCooked \in Nat /\ MaxCooked \in Nat /\ MinCooked <= MaxCooked /\ NumBought \in Nat \ {0}
  OBVIOUS
<1>1. CASE KitchenQuiet
  <2>1. ASSUME NEW i \in Food
        PROVE  FoodBounded(i)'
    <3>1. Unseen(i) => Unseen(i)'
      BY <1>1 DEF KitchenQuiet, Unseen, ManagerBusy, Is
    <3> QED
      BY <1>0, <1>1, <1>10, <3>1, FoodSame DEF KitchenQuiet
  <2> QED
    BY <2>1 DEF KitchenBounded
<1>2. CASE StopBagging(Manager)
  <2>1. Is(T(Manager), "bag") /\ Go(T(Manager), "buying")
    BY <1>2 DEF StopBagging
  <2>2. OnlyMove({}, {Manager}, {}, {})
    <3>1. "buying" \in TakerPlace
      BY DEF TakerPlace
    <3> QED
      BY <1>0, <2>1, <3>1, GoTaker
  <2>3. stock' = stock /\ cooked' = cooked /\ onBreak' = onBreak
    BY <1>2 DEF StopBagging, kitchen
  <2>4. ASSUME NEW i \in Food
        PROVE  FoodBounded(i)'
    <3>1. ~Unseen(i)
      BY <2>1 DEF Unseen, Is
    <3>2. at'[K(i)] = at[K(i)]
      BY <2>2 DEF OnlyMove
    <3> QED
      BY <1>0, <1>10, <2>3, <3>1, <3>2, FoodSame
  <2> QED
    BY <2>4 DEF KitchenBounded
<1>3. CASE orderInventoryFood
  <2> DEFINE n == step[Manager]
             p == IF n < NumFoods THEN "buying"
                  ELSE IF NumFoods = 0 THEN "seating" ELSE "managing"
             m == IF n < NumFoods THEN n + 1 ELSE 1
  <2>1. /\ Is(T(Manager), "buying") /\ Go(T(Manager), p) /\ step' = [step EXCEPT ![Manager] = m]
        /\ stock' = IF stock[n] <= 0 THEN [stock EXCEPT ![n] = @ + NumBought] ELSE stock
        /\ cooked' = cooked /\ onBreak' = onBreak
    BY <1>3, Zenon DEF orderInventoryFood
  <2>2. n \in 0..NumFoods
    BY <1>0, <2>1 DEF LoopsBounded
  <2>3. at'[T(Manager)] = p /\ OnlyMove({}, {Manager}, {}, {})
    <3>1. p \in TakerPlace
      BY DEF TakerPlace
    <3> QED
      BY <1>0, <2>1, <3>1, GoTaker
  <2>4. step'[Manager] = m
    BY <1>0, <2>1
  <2>5. ASSUME NEW i \in Food
        PROVE  FoodBounded(i)'
    <3>1. at'[K(i)] = at[K(i)]
      BY <2>3 DEF OnlyMove
    <3>2. Unseen(i) <=> n > i
      BY <2>1 DEF Unseen, Is
    <3>3. n >= i => Unseen(i)'
      <4>1. ASSUME n >= i, n < NumFoods
            PROVE  Unseen(i)'
        BY <1>10, <2>2, <2>3, <2>4, <4>1 DEF Unseen, Is
      <4>2. ASSUME n >= i, ~(n < NumFoods)
            PROVE  Unseen(i)'
        BY <1>0, <1>10, <2>2, <2>3, <2>4, <4>2 DEF Unseen, Is
      <4> QED
        BY <4>1, <4>2
    <3>4. CASE n # i \/ ~(stock[n] <= 0)
      <4>1. stock \in [0..NumFoods -> 0..NumBought]
        BY <1>0 DEF Shape, Typed
      <4>2. stock'[i] = stock[i]
        BY <1>10, <2>1, <2>2, <3>4, <4>1
      <4> QED
        BY <1>0, <1>10, <2>1, <2>2, <3>1, <3>2, <3>3, <4>2, FoodSame
    <3>5. CASE n = i /\ stock[i] <= 0
      <4>1. stock \in [0..NumFoods -> 0..NumBought]
        BY <1>0 DEF Shape, Typed
      <4>2. stock'[i] = stock[i] + NumBought
        BY <1>10, <2>1, <3>5, <4>1
      <4>3. ~Unseen(i) /\ Unseen(i)' /\ FoodBounded(i)
        BY <1>0, <1>10, <3>2, <3>3, <3>5 DEF KitchenBounded
      <4>4. Stove(i) \in {0, 1} /\ Stove(i)' = Stove(i)
        BY <3>1 DEF Stove, Is
      <4>5. /\ Supply(i) = cooked[i] + Stove(i) + stock[i]
            /\ Supply(i)' = cooked[i] + Stove(i) + stock[i] + NumBought
        BY <1>10, <2>1, <4>2, <4>4 DEF Supply
      <4>6. ~onBreak[i] => Supply(i) <= MaxCooked + 1 + NumBought
        BY <1>11, <4>3 DEF FoodBounded
      <4>7. ~onBreak[i] => Supply(i)' <= MaxCooked + 1 + NumBought + NumBought
        BY <1>10, <1>11, <4>4, <4>5, <4>6
      <4> QED
        BY <2>1, <3>1, <4>3, <4>4, <4>7 DEF FoodBounded, Is
    <3> QED
      BY <3>4, <3>5
  <2> QED
    BY <2>5 DEF KitchenBounded
<1>4. CASE hireCook
  <2>1. hireCookMove
    BY <1>0, <1>4, hireCookMoves
  <2>2. /\ Managed \in Food /\ at[T(Manager)] = "managing" /\ at[K(Managed)] = "unhired"
        /\ at'[T(Manager)] = "hiring" /\ at'[K(Managed)] = "hired"
        /\ \A i \in Food \ {Managed} : at'[K(i)] = at[K(i)]
        /\ stock' = stock /\ cooked' = cooked /\ onBreak' = onBreak /\ step' = step
    BY <2>1 DEF hireCookMove, OnlyMove, kitchen
  <2>3. ASSUME NEW i \in Food
        PROVE  FoodBounded(i)'
    <3>1. CASE i # Managed
      <4>1. Unseen(i) => Unseen(i)'
        BY <1>10, <2>2, <3>1 DEF Unseen, Is, Managed
      <4> QED
        BY <1>0, <1>10, <2>2, <3>1, <4>1, FoodSame
    <3>2. CASE i = Managed
      <4>1. cooked[i] = 0 /\ cooked'[i] = 0 /\ stock'[i] <= NumBought
        BY <1>0, <1>10, <2>2, <3>2 DEF KitchenBounded, FoodBounded, Is
      <4>2. Stove(i)' = 0 /\ at'[K(i)] = "hired"
        BY <2>2, <3>2 DEF Stove, Is
      <4>3. Supply(i)' <= NumBought
        BY <1>10, <4>1, <4>2 DEF Supply
      <4>4. /\ cooked'[i] + Stove(i)' <= MaxCooked + 1 + 2 * NumBought
            /\ Supply(i)' <= MaxCooked + 1 + NumBought + (IF Unseen(i)' THEN NumBought ELSE 0)
        BY <1>10, <1>11, <4>1, <4>2, <4>3 DEF Supply
      <4> QED
        BY <4>2, <4>4 DEF FoodBounded, Is
    <3> QED
      BY <3>1, <3>2
  <2> QED
    BY <2>3 DEF KitchenBounded
<1>5. CASE CookIsHired
  <2>1. CookIsHiredMove
    BY <1>0, <1>5, CookIsHiredMoves
  <2>2. /\ Managed \in Food /\ at[T(Manager)] = "hiredOne"
        /\ at'[T(Manager)] = (IF Managed < NumFoods THEN "managing" ELSE "seating")
        /\ \A i \in Food : at'[K(i)] = at[K(i)]
        /\ stock' = stock /\ cooked' = cooked /\ onBreak' = onBreak
        /\ step' = [step EXCEPT ![Manager] = Managed + 1]
    BY <2>1 DEF CookIsHiredMove, OnlyMove, kitchen
  <2>3. step'[Manager] = Managed + 1 /\ step[Manager] = Managed
    BY <1>0, <2>2 DEF Managed
  <2>4. ASSUME NEW i \in Food
        PROVE  FoodBounded(i)'
    <3>1. ASSUME Unseen(i)
          PROVE  Unseen(i)'
      <4>1. Managed < i
        BY <2>2, <2>3, <3>1 DEF Unseen, Is
      <4>2. Managed \in Nat /\ i \in Nat /\ Managed < NumFoods /\ Managed + 1 <= i
        BY <1>0, <1>10, <2>2, <4>1
      <4> QED
        BY <2>2, <2>3, <4>2 DEF Unseen, Is
    <3> QED
      BY <1>0, <1>10, <2>2, <3>1, FoodSame
  <2> QED
    BY <2>4 DEF KitchenBounded
<1>6. CASE manageCook
  <2>1. manageCookMove
    BY <1>0, <1>6, manageCookMoves
  <2>2. /\ Managed \in Food /\ at[T(Manager)] = "managing"
        /\ TooLittle(Managed) => at[K(Managed)] # "unhired"
        /\ at'[T(Manager)] = (IF Managed < NumFoods THEN "managing" ELSE "seating")
        /\ stock' = stock /\ cooked' = cooked
        /\ step' = [step EXCEPT ![Manager] = Managed + 1]
        /\ onBreak' = [onBreak EXCEPT ![Managed] =
             IF TooLittle(Managed) THEN FALSE
             ELSE onBreak[Managed] \/ cooked[Managed] > MaxCooked]
    BY <2>1 DEF manageCookMove
  <2>3. /\ \A i \in Food \ {Managed} : at'[K(i)] = at[K(i)]
        /\ IF TooLittle(Managed) /\ at[K(Managed)] = "break" THEN at'[K(Managed)] = "back"
           ELSE at'[K(Managed)] = at[K(Managed)]
    BY <2>1 DEF manageCookMove, OnlyMove
  <2>4. step'[Manager] = Managed + 1 /\ step[Manager] = Managed
    BY <1>0, <2>2 DEF Managed
  <2>5. onBreak \in [Food -> BOOLEAN]
    BY <1>0 DEF Shape, Typed
  <2>6. ASSUME NEW i \in Food
        PROVE  FoodBounded(i)'
    <3>1. CASE i # Managed
      <4>1. onBreak'[i] = onBreak[i]
        BY <2>2, <2>5, <3>1
      <4>2. ASSUME Unseen(i)
            PROVE  Unseen(i)'
        <5>1. Managed <= i
          BY <2>2, <2>4, <4>2 DEF Unseen, Is
        <5>2. Managed \in Nat /\ i \in Nat /\ Managed < NumFoods /\ Managed + 1 <= i
          BY <1>0, <1>10, <2>2, <3>1, <5>1
        <5> QED
          BY <2>2, <2>4, <5>2 DEF Unseen, Is
      <4> QED
        <5>1. /\ at'[K(i)] = at[K(i)] /\ cooked'[i] = cooked[i] /\ cooked[i] \in Nat
              /\ stock'[i] = stock[i]
          BY <1>10, <2>2, <2>3, <3>1
        <5>2. cooked'[i] \in Nat /\ cooked'[i] <= cooked[i]
          BY <5>1
        <5> QED
          BY <1>0, <4>1, <4>2, <5>1, <5>2, FoodSame
    <3>2. CASE i = Managed
      <4>1. /\ at'[K(i)] = (IF TooLittle(i) /\ at[K(i)] = "break" THEN "back" ELSE at[K(i)])
            /\ cooked'[i] = cooked[i] /\ stock'[i] = stock[i] /\ FoodBounded(i)
        BY <1>0, <2>2, <2>3, <3>2 DEF KitchenBounded
      <4>2. onBreak'[i] = (IF TooLittle(i) THEN FALSE ELSE onBreak[i] \/ cooked[i] > MaxCooked)
        BY <2>2, <2>5, <3>2, Zenon
      <4>3. Stove(i) \in {0, 1} /\ Stove(i)' = Stove(i)
        BY <4>1 DEF Stove, Is
      <4>4. cooked[i] \in Nat /\ stock[i] \in Nat /\ stock[i] <= NumBought
        BY <1>10
      <4>5. ~onBreak'[i] => cooked[i] <= MaxCooked
        <5>1. TooLittle(i) \/ (~onBreak'[i] => ~(cooked[i] > MaxCooked))
          BY <4>2, Zenon
        <5>2. TooLittle(i) => cooked[i] < MinCooked
          BY DEF TooLittle
        <5> QED
          BY <1>11, <4>4, <5>1, <5>2
      <4>6. ~onBreak'[i] => Supply(i)' <= MaxCooked + 1 + NumBought
                                              + (IF Unseen(i)' THEN NumBought ELSE 0)
        BY <1>11, <4>1, <4>3, <4>4, <4>5 DEF Supply
      <4>7. at'[K(i)] = "back" => cooked[i] < MinCooked
        BY <4>1 DEF FoodBounded, Is, TooLittle
      <4>8. at'[K(i)] = "back" => ~onBreak'[i]
        <5>1. CASE TooLittle(i)
          BY <4>2, <5>1
        <5>2. CASE ~TooLittle(i)
          <6>1. at'[K(i)] = "back" => ~onBreak[i] /\ cooked[i] < MinCooked
            BY <4>1, <5>2 DEF FoodBounded, Is
          <6>2. cooked[i] < MinCooked => ~(cooked[i] > MaxCooked)
            BY <1>11, <4>4
          <6> QED
            BY <4>2, <5>2, <6>1, <6>2, Zenon
        <5> QED
          BY <5>1, <5>2
      <4>9. at'[K(i)] = "unhired" => cooked'[i] = 0
        BY <4>1 DEF FoodBounded, Is
      <4>10. cooked'[i] + Stove(i)' <= MaxCooked + 1 + 2 * NumBought
        BY <4>1, <4>3 DEF FoodBounded
      <4> QED
        BY <4>1, <4>6, <4>7, <4>8, <4>9, <4>10 DEF FoodBounded, Is
    <3> QED
      BY <3>1, <3>2
  <2> QED
    BY <2>6 DEF KitchenBounded
<1>7. ASSUME NEW j \in Food, CookGoes(j)
      PROVE  KitchenBounded'
  <2>1. CookGoesMove(j)
    BY <1>0, <1>7, CookGoesMoves
  <2>2. /\ at'[T(Manager)] = at[T(Manager)] /\ step' = step /\ onBreak' = onBreak
        /\ \A i \in Food \ {j} : at'[K(i)] = at[K(i)]
        /\ at'[K(j)] \in {"break", "stove", "checkExit", "gone", "cooking"}
    BY <1>0, <2>1 DEF CookGoesMove, OnlyMove
  <2>3. K(j) \in Thread
    BY Names
  <2>4. /\ \A i \in Food \ {j} : cooked'[i] = cooked[i] /\ stock'[i] = stock[i]
        /\ Supply(j)' <= Supply(j)
        /\ cooked'[j] + Stove(j)' <= cooked[j] + Stove(j) \/ ~onBreak[j]
    <3>1. stock \in [0..NumFoods -> 0..NumBought] /\ cooked \in [Food -> Nat]
          /\ j \in 0..NumFoods /\ \A i \in Food : i \in 0..NumFoods
      BY <1>0, <1>10 DEF Shape, Typed
    <3>2. CASE TakeBreak(j) \/ ExitCook(j)
      <4>1. stock' = stock /\ cooked' = cooked /\ at[K(j)] # "stove" /\ at'[K(j)] # "stove"
        BY <1>0, <2>3, <3>2 DEF TakeBreak, ExitCook, Is, Go, kitchen
      <4>2. Stove(j) = 0 /\ Stove(j)' = 0
        BY <4>1 DEF Stove, Is
      <4> QED
        BY <1>10, <4>1, <4>2 DEF Supply
    <3>3. CASE StartCooking(j)
      <4>1. /\ cooked' = cooked /\ ~onBreak[j] /\ at[K(j)] # "stove"
            /\ at' = [at EXCEPT ![K(j)] = IF stock[j] > 0 THEN "stove" ELSE "checkExit"]
            /\ stock' = [stock EXCEPT ![j] = IF stock[j] > 0 THEN stock[j] - 1 ELSE stock[j]]
        BY <1>0, <3>3 DEF StartCooking, Is, Go, KitchenBounded, FoodBounded
      <4>2. /\ stock'[j] = (IF stock[j] > 0 THEN stock[j] - 1 ELSE stock[j])
            /\ \A i \in Food \ {j} : stock'[i] = stock[i]
        BY <3>1, <4>1
      <4>3. at'[K(j)] = IF stock[j] > 0 THEN "stove" ELSE "checkExit"
        BY <1>0, <2>3, <4>1
      <4>4. Stove(j) = 0 /\ Stove(j)' = IF stock[j] > 0 THEN 1 ELSE 0
        BY <4>1, <4>3 DEF Stove, Is
      <4>5. Supply(j)' <= Supply(j)
        BY <1>10, <4>1, <4>2, <4>4 DEF Supply
      <4> QED
        BY <4>1, <4>2, <4>5
    <3>4. CASE FinishCooking(j)
      <4>1. /\ stock' = stock /\ cooked' = [cooked EXCEPT ![j] = cooked[j] + 1]
            /\ at[K(j)] = "stove" /\ at' = [at EXCEPT ![K(j)] = "checkExit"]
        BY <3>4 DEF FinishCooking, Is, Go
      <4>2. cooked'[j] = cooked[j] + 1 /\ \A i \in Food \ {j} : cooked'[i] = cooked[i]
        BY <3>1, <4>1
      <4>3. Stove(j) = 1 /\ Stove(j)' = 0
        BY <1>0, <2>3, <4>1 DEF Stove, Is
      <4> QED
        BY <1>10, <4>1, <4>2, <4>3 DEF Supply
    <3> QED
      BY <1>7, <3>2, <3>3, <3>4 DEF CookGoes
  <2>5. ASSUME NEW i \in Food
        PROVE  FoodBounded(i)'
    <3>1. Unseen(i)' <=> Unseen(i)
      BY <2>2 DEF Unseen, Is
    <3>2. CASE i # j
      BY <1>0, <1>10, <2>2, <2>4, <3>1, <3>2, FoodSame
    <3>3. CASE i = j
      <4>1. at'[K(i)] # "back" /\ at'[K(i)] # "unhired" /\ onBreak'[i] = onBreak[i]
        BY <2>2, <3>3
      <4> QED
        BY <1>0, <1>10, <2>4, <3>1, <3>3, <4>1, FoodFrame
    <3> QED
      BY <3>2, <3>3
  <2> QED
    BY <2>5 DEF KitchenBounded
<1>8. ASSUME NEW j \in Food, StartCook(j)
      PROVE  KitchenBounded'
  <2>1. StartCookMove(j)
    BY <1>0, <1>8, StartCookMoves
  <2>2. /\ at[K(j)] = "hired" /\ at'[T(Manager)] = "hiredOne" /\ at'[K(j)] = "cooking"
        /\ \A i \in Food \ {j} : at'[K(i)] = at[K(i)]
        /\ stock' = stock /\ cooked' = cooked /\ onBreak' = onBreak /\ step' = step
    BY <2>1 DEF StartCookMove, OnlyMove, kitchen
  <2>3. at[T(Manager)] = "hiring"
    BY <1>0, <2>2 DEF LoopsBounded, Is
  <2>4. ASSUME NEW i \in Food
        PROVE  FoodBounded(i)'
    <3>1. Unseen(i) => Unseen(i)'
      BY <2>2, <2>3 DEF Unseen, Is
    <3>2. Stove(i)' = Stove(i) /\ Stove(i) \in {0, 1}
      BY <2>2 DEF Stove, Is
    <3>3. Supply(i)' <= Supply(i) /\ cooked'[i] + Stove(i)' <= cooked[i] + Stove(i)
      BY <1>10, <2>2, <3>2 DEF Supply
    <3>4. /\ at'[K(i)] = "back" => at[K(i)] = "back" /\ cooked'[i] <= cooked[i]
          /\ at'[K(i)] = "unhired" => at[K(i)] = "unhired" /\ cooked'[i] <= cooked[i]
      BY <1>10, <2>2
    <3> QED
      BY <1>0, <1>10, <2>2, <3>1, <3>3, <3>4, FoodFrame
  <2> QED
    BY <2>4 DEF KitchenBounded
<1> QED
  BY <1>1, <1>2, <1>3, <1>4, <1>5, <1>6, <1>7, <1>8, KitchenSteps

-----------------------------------------------------------------------------
(* The customers and their lines, numbers and tables *)

\* What a customer may do while the lines, tables and numbers stay as they are.
Turn(c) ==
    \/ at'[C(c)] = at[C(c)]
    \/ From(c, "called", "ordering") \/ From(c, "ordering", "answered")
    \/ From(c, "answered", "paying") \/ (From(c, "numbered", "sitting") /\ eatIn[c])
    \/ From(c, "sitting", "fed") \/ From(c, "fed", "leaving")
    \/ From(c, "listening", "checking")

CustomersQuiet ==
    /\ UNCHANGED <<eatIn, served, toEnter, toOrder, tables, ownerOf, tokenOf>>
    /\ \A c \in Customer : Turn(c)

LEMMA CustomerSteps ==
    ASSUME IInv, Next
    PROVE  /\ mode' = mode
           /\ \/ CustomersQuiet \/ checkLineToEnterRest
              \/ \E c \in Customer : CustomerGoes(c)
              \/ \E t \in Taker : CallCustomer(t) \/ GiveNumber(t)
<1>0. /\ Shape /\ Paired /\ InLines /\ LoopsBounded /\ NumbersGiven /\ OncePlaced
      /\ PlacedIsGiven /\ OwnersFit /\ TableQueues
  BY DEF IInv, Shape
<1>1. ASSUME NEW c \in Customer, CustomerGoes(c)
      PROVE  mode' = mode
  <2>1. CustomerGoesMove(c)
    BY <1>0, <1>1, CustomerGoesMoves
  <2> QED
    BY <2>1 DEF CustomerGoesMove
<1>2. ASSUME NEW c \in Customer, GiveOrder(c)
      PROVE  mode' = mode /\ CustomersQuiet
  <2>1. PICK t \in Taker : GiveOrderMove(c, t)
    BY <1>0, <1>2, GiveOrderMoves
  <2>2. \A d \in Customer : Turn(d)
    BY <1>0, <2>1 DEF GiveOrderMove, OnlyMove, Turn, From
  <2> QED
    BY <2>1, <2>2 DEF GiveOrderMove, CustomersQuiet, lines, meeting
<1>3. ASSUME NEW c \in Customer, Pay(c)
      PROVE  mode' = mode /\ CustomersQuiet
  <2>1. PICK t \in Taker : PayMove(c, t)
    BY <1>0, <1>3, PayMoves
  <2>2. \A d \in Customer : Turn(d)
    BY <1>0, <2>1 DEF PayMove, OnlyMove, Turn, From
  <2> QED
    BY <2>1, <2>2 DEF PayMove, CustomersQuiet, lines, meeting
<1>4. ASSUME NEW c \in Customer, SitDown(c)
      PROVE  mode' = mode /\ CustomersQuiet
  <2>1. SitDownMove(c)
    BY <1>0, <1>4, SitDownMoves
  <2>2. \A d \in Customer : Turn(d)
    BY <1>0, <2>1 DEF SitDownMove, OnlyMove, Turn, From
  <2> QED
    BY <2>1, <2>2 DEF SitDownMove, CustomersQuiet, lines, meeting
<1>5. ASSUME NEW c \in Customer, Eat(c)
      PROVE  mode' = mode /\ CustomersQuiet
  <2>1. EatMove(c)
    BY <1>0, <1>5, EatMoves
  <2>2. \A d \in Customer : Turn(d)
    BY <1>0, <2>1 DEF EatMove, OnlyMove, Turn, From
  <2> QED
    BY <2>1, <2>2 DEF EatMove, CustomersQuiet, lines, meeting
<1>6. ASSUME NEW t \in Taker, TakerGoes(t)
      PROVE  mode' = mode /\ CustomersQuiet
  <2>1. TakerGoesMove(t)
    BY <1>0, <1>6, TakerGoesMoves
  <2>2. \A d \in Customer : Turn(d)
    BY <1>0, <2>1 DEF TakerGoesMove, OnlyMove, Turn, From
  <2> QED
    BY <2>1, <2>2 DEF TakerGoesMove, CustomersQuiet, lines, meeting
<1>7. ASSUME NEW t \in Taker, CallCustomer(t)
      PROVE  mode' = mode
  <2>1. PICK c \in Customer : CallCustomerMove(c, t)
    BY <1>0, <1>7, CallCustomerMoves
  <2> QED
    BY <2>1 DEF CallCustomerMove
<1>8. ASSUME NEW t \in Taker, TakeOrder(t)
      PROVE  mode' = mode /\ CustomersQuiet
  <2>1. PICK c \in Customer : TakeOrderMove(c, t)
    BY <1>0, <1>8, TakeOrderMoves
  <2>2. \A d \in Customer : Turn(d)
    BY <1>0, <2>1 DEF TakeOrderMove, OnlyMove, Turn, From
  <2> QED
    BY <2>1, <2>2 DEF TakeOrderMove, CustomersQuiet, lines, meeting
<1>9. ASSUME NEW t \in Taker, GiveNumber(t)
      PROVE  mode' = mode
  <2>1. PICK c \in Customer : GiveNumberMove(c, t)
    BY <1>0, <1>9, GiveNumberMoves
  <2> QED
    BY <2>1 DEF GiveNumberMove
<1>10. ASSUME NEW t \in Taker, NoteOrder(t)
      PROVE  mode' = mode /\ CustomersQuiet
  <2>1. NoteOrderMove(t)
    BY <1>0, <1>10, NoteOrderMoves
  <2>2. \A d \in Customer : Turn(d)
    BY <1>0, <2>1 DEF NoteOrderMove, OnlyMove, Turn, From
  <2> QED
    BY <2>1, <2>2 DEF NoteOrderMove, CustomersQuiet, lines, meeting
<1>11. ASSUME NEW t \in Taker, BagOrder(t)
      PROVE  mode' = mode /\ CustomersQuiet
  <2>1. PICK k \in Token : BagOrderMove(t, k)
    BY <1>0, <1>11, BagOrderMoves
  <2>2. \A c \in Customer : Turn(c)
    BY <1>0, <2>1 DEF BagOrderMove, LessLeft, BaggedNow, CalledNow, OnlyMove, Turn, From
  <2> QED
    BY <2>1, <2>2 DEF BagOrderMove, CustomersQuiet, lines, meeting
<1>12. ASSUME hireCook
      PROVE  mode' = mode /\ CustomersQuiet
  <2>1. hireCookMove
    BY <1>0, <1>12, hireCookMoves
  <2>2. \A d \in Customer : Turn(d)
    BY <1>0, <2>1 DEF hireCookMove, OnlyMove, Turn, From
  <2> QED
    BY <2>1, <2>2 DEF hireCookMove, CustomersQuiet, lines, meeting
<1>13. ASSUME CookIsHired
      PROVE  mode' = mode /\ CustomersQuiet
  <2>1. CookIsHiredMove
    BY <1>0, <1>13, CookIsHiredMoves
  <2>2. \A d \in Customer : Turn(d)
    BY <1>0, <2>1 DEF CookIsHiredMove, OnlyMove, Turn, From
  <2> QED
    BY <2>1, <2>2 DEF CookIsHiredMove, CustomersQuiet, lines, meeting
<1>14. ASSUME manageCook
      PROVE  mode' = mode /\ CustomersQuiet
  <2>1. manageCookMove
    BY <1>0, <1>14, manageCookMoves
  <2>2. \A d \in Customer : Turn(d)
    BY <1>0, <2>1 DEF manageCookMove, OnlyMove, Turn, From
  <2> QED
    BY <2>1, <2>2 DEF manageCookMove, CustomersQuiet, lines, meeting
<1>15. ASSUME checkLineToEnterRest
      PROVE  mode' = mode
  <2>1. checkLineToEnterRestMove
    BY <1>0, <1>15, checkLineToEnterRestMoves
  <2> QED
    BY <2>1 DEF checkLineToEnterRestMove
<1>16. ASSUME NEW i \in Food, CookGoes(i)
      PROVE  mode' = mode /\ CustomersQuiet
  <2>1. CookGoesMove(i)
    BY <1>0, <1>16, CookGoesMoves
  <2>2. \A d \in Customer : Turn(d)
    BY <1>0, <2>1 DEF CookGoesMove, OnlyMove, Turn, From
  <2> QED
    BY <2>1, <2>2 DEF CookGoesMove, CustomersQuiet, lines, meeting
<1>17. ASSUME NEW i \in Food, StartCook(i)
      PROVE  mode' = mode /\ CustomersQuiet
  <2>1. StartCookMove(i)
    BY <1>0, <1>17, StartCookMoves
  <2>2. \A d \in Customer : Turn(d)
    BY <1>0, <2>1 DEF StartCookMove, OnlyMove, Turn, From
  <2> QED
    BY <2>1, <2>2 DEF StartCookMove, CustomersQuiet, lines, meeting
<1>18. ASSUME NEW w \in Waiter, TakeBag(w)
      PROVE  mode' = mode /\ CustomersQuiet
  <2>1. TakeBagMove(w)
    BY <1>0, <1>18, TakeBagMoves
  <2>2. \A d \in Customer : Turn(d)
    BY <1>0, <2>1 DEF TakeBagMove, OnlyMove, Turn, From
  <2> QED
    BY <2>1, <2>2 DEF TakeBagMove, CustomersQuiet, lines, meeting
<1>19. ASSUME NEW w \in Waiter, Serve(w)
      PROVE  mode' = mode /\ CustomersQuiet
  <2>1. PICK c \in Customer : ServeMove(c, w)
    BY <1>0, <1>19, ServeMoves
  <2>2. \A d \in Customer : Turn(d)
    BY <1>0, <2>1 DEF ServeMove, OnlyMove, Turn, From
  <2> QED
    BY <2>1, <2>2 DEF ServeMove, CustomersQuiet, lines, meeting
<1>20. ASSUME NEW w \in Waiter, FinishServing(w)
      PROVE  mode' = mode /\ CustomersQuiet
  <2>1. PICK c \in Customer : FinishServingMove(c, w)
    BY <1>0, <1>20, FinishServingMoves
  <2>2. \A d \in Customer : Turn(d)
    BY <1>0, <2>1 DEF FinishServingMove, OnlyMove, Turn, From
  <2> QED
    BY <2>1, <2>2 DEF FinishServingMove, CustomersQuiet, lines, meeting
<1> QED
  BY <1>1, <1>2, <1>3, <1>4, <1>5, <1>6, <1>7, <1>8, <1>9, <1>10, <1>11, <1>12, <1>13,
     <1>14, <1>15, <1>16, <1>17, <1>18, <1>19, <1>20, Steps

\* Counting customers.
LEMMA Counting ==
    /\ \A A \in SUBSET Customer : Cardinality(A) \in Nat /\ Cardinality(A) <= NumCustomers
    /\ \A A \in SUBSET Customer : Cardinality(A) = NumCustomers => A = Customer
    /\ \A A \in SUBSET Customer : \A c \in Customer : c \notin A =>
          Cardinality(A \cup {c}) = Cardinality(A) + 1
    /\ \A A \in SUBSET Customer : \A c \in Customer : c \in A =>
          Cardinality(A \ {c}) = Cardinality(A) - 1
<1>1. \A A \in SUBSET Customer : IsFiniteSet(A) /\ Cardinality(A) <= NumCustomers
                                    /\ (Cardinality(A) = NumCustomers => A = Customer)
  BY Customers, FS_Subset
<1>2. \A A \in SUBSET Customer : Cardinality(A) \in Nat
  BY <1>1, FS_CardinalityType
<1>3. \A A \in SUBSET Customer : \A c \in Customer : c \notin A =>
          Cardinality(A \cup {c}) = Cardinality(A) + 1
  BY <1>1, FS_AddElement
<1>4. \A A \in SUBSET Customer : \A c \in Customer : c \in A =>
          Cardinality(A \ {c}) = Cardinality(A) - 1
  BY <1>1, FS_RemoveElement
<1> QED
  BY <1>1, <1>2, <1>3, <1>4

\* Where the customer of a step that one customer makes alone is, before and after,
\* and the others stay.
LEMMA OneCustomer ==
    ASSUME Shape, NEW c \in Customer, CustomerGoes(c)
    PROVE  /\ \A d \in Customer \ {c} : at'[C(d)] = at[C(d)]
           /\ at[C(c)] \in {"new", "outside", "entering", "hungry", "leaving", "numbered",
                            "checking", "full"}
           /\ at[C(c)] = "new" <=> StartCustomer(c)
           /\ at[C(c)] = "outside" <=> JoinLineToEnter(c)
           /\ at[C(c)] = "entering" <=> EnterRest(c)
           /\ at[C(c)] = "hungry" <=> JoinLineToOrder(c)
           /\ at[C(c)] = "leaving" <=> FreeTable(c)
           /\ at[C(c)] \in {"numbered", "checking"} <=> CheckOrder(c)
           /\ at[C(c)] = "full" <=> LeaveRestaurant(c)
<1>1. \A d \in Customer \ {c} : at'[C(d)] = at[C(d)]
  BY CustomerGoesMoves DEF CustomerGoesMove, OnlyMove
<1>2. /\ StartCustomer(c) => at[C(c)] = "new"
      /\ JoinLineToEnter(c) => at[C(c)] = "outside"
      /\ EnterRest(c) => at[C(c)] = "entering"
      /\ JoinLineToOrder(c) => at[C(c)] = "hungry"
      /\ FreeTable(c) => at[C(c)] = "leaving"
      /\ CheckOrder(c) => at[C(c)] \in {"numbered", "checking"}
      /\ LeaveRestaurant(c) => at[C(c)] = "full"
  BY DEF StartCustomer, JoinLineToEnter, EnterRest, JoinLineToOrder, FreeTable, CheckOrder,
     LeaveRestaurant, Is
<1> QED
  BY <1>1, <1>2 DEF CustomerGoes

LEMMA ServedStep ==
    ASSUME IInv, Next
    PROVE  ServedCounted' /\ \A c \in Customer : Is(C(c), "gone") => Is(C(c), "gone")'
<1>0. /\ Shape /\ Paired /\ InLines /\ Gone \in SUBSET Customer /\ served = Cardinality(Gone)
      /\ served \in Nat
  BY DEF IInv, Shape, Typed, Gone, ServedCounted
<1> SUFFICES /\ served' = Cardinality(Gone')
             /\ \A c \in Customer : at[C(c)] = "gone" => at'[C(c)] = "gone"
  BY DEF ServedCounted, Is
<1>1. ASSUME served' = served, \A c \in Customer : at[C(c)] = "gone" <=> at'[C(c)] = "gone"
      PROVE  /\ served' = Cardinality(Gone')
             /\ \A c \in Customer : at[C(c)] = "gone" => at'[C(c)] = "gone"
  <2>1. Gone' = Gone
    BY <1>1 DEF Gone, Is
  <2> QED
    BY <1>0, <1>1, <2>1
<1>2. CASE CustomersQuiet
  BY <1>1, <1>2 DEF CustomersQuiet, Turn, From
<1>3. CASE checkLineToEnterRest
  BY <1>0, <1>1, <1>3, checkLineToEnterRestMoves DEF checkLineToEnterRestMove, OnlyMove
<1>4. ASSUME NEW c \in Customer, CustomerGoes(c)
      PROVE  /\ served' = Cardinality(Gone')
             /\ \A d \in Customer : at[C(d)] = "gone" => at'[C(d)] = "gone"
  <2>1. /\ CustomerGoesMove(c) /\ \A d \in Customer \ {c} : at'[C(d)] = at[C(d)]
        /\ at[C(c)] # "gone"
    BY <1>0, <1>4, CustomerGoesMoves, OneCustomer
  <2>2. CASE at[C(c)] = "full"
    <3>1. LeaveRestaurant(c) /\ at'[C(c)] = "gone"
      BY <1>0, <1>4, <2>1, <2>2, OneCustomer DEF CustomerGoesMove, From
    <3>2. Gone' = Gone \cup {c} /\ c \notin Gone
      BY <2>1, <3>1 DEF Gone, Is
    <3>3. served' = served + 1
      BY <3>1 DEF LeaveRestaurant
    <3>4. Cardinality(Gone \cup {c}) = Cardinality(Gone) + 1
      BY <1>0, <3>2, Counting
    <3> QED
      BY <1>0, <2>1, <3>1, <3>2, <3>3, <3>4
  <2>3. CASE at[C(c)] # "full"
    <3>1. at'[C(c)] # "gone"
      BY <2>1, <2>3 DEF CustomerGoesMove, From
    <3>2. served' = served
      BY <1>0, <1>4, <2>3, OneCustomer DEF CustomerGoes, StartCustomer, JoinLineToEnter,
         EnterRest, JoinLineToOrder, FreeTable, CheckOrder
    <3> QED
      BY <1>1, <2>1, <3>1, <3>2
  <2> QED
    BY <2>2, <2>3
<1>5. ASSUME NEW t \in Taker, CallCustomer(t)
      PROVE  /\ served' = Cardinality(Gone')
             /\ \A d \in Customer : at[C(d)] = "gone" => at'[C(d)] = "gone"
  BY <1>0, <1>1, <1>5, CallCustomerMoves DEF CallCustomerMove, OnlyMove
<1>6. ASSUME NEW t \in Taker, GiveNumber(t)
      PROVE  /\ served' = Cardinality(Gone')
             /\ \A d \in Customer : at[C(d)] = "gone" => at'[C(d)] = "gone"
  BY <1>0, <1>1, <1>6, GiveNumberMoves DEF GiveNumberMove, OnlyMove
<1> QED
  BY <1>2, <1>3, <1>4, <1>5, <1>6, CustomerSteps

\* Nobody of the staff goes home unless everybody has been served.
HomeEarly(thread) == at[thread] # "gone" /\ at'[thread] = "gone"

LEMMA NobodyHomeEarly ==
    ASSUME IInv, Next, ~shouldExit
    PROVE  (\A t \in Taker : ~HomeEarly(T(t))) /\ (\A i \in Food : ~HomeEarly(K(i)))
<1>0. /\ Shape /\ Paired /\ InLines /\ LoopsBounded /\ NumbersGiven /\ OncePlaced
      /\ PlacedIsGiven /\ OwnersFit /\ TableQueues /\ at \in [Thread -> Place]
      /\ (\A t \in Taker : T(t) \in Thread) /\ (\A i \in Food : K(i) \in Thread)
  BY Names DEF IInv, Shape, Placed
<1> DEFINE G == (\A t \in Taker : ~HomeEarly(T(t))) /\ (\A i \in Food : ~HomeEarly(K(i)))
<1>1. ASSUME NEW c \in Customer, CustomerGoes(c)
      PROVE  G
  <2>1. CustomerGoesMove(c)
    BY <1>0, <1>1, CustomerGoesMoves
  <2> QED
    BY <2>1 DEF CustomerGoesMove, OnlyMove, HomeEarly
<1>2. ASSUME NEW c \in Customer, GiveOrder(c)
      PROVE  G
  <2>1. PICK t \in Taker : GiveOrderMove(c, t)
    BY <1>0, <1>2, GiveOrderMoves
  <2> QED
    BY <2>1 DEF GiveOrderMove, OnlyMove, HomeEarly
<1>3. ASSUME NEW c \in Customer, Pay(c)
      PROVE  G
  <2>1. PICK t \in Taker : PayMove(c, t)
    BY <1>0, <1>3, PayMoves
  <2> QED
    BY <2>1 DEF PayMove, OnlyMove, HomeEarly
<1>4. ASSUME NEW c \in Customer, SitDown(c)
      PROVE  G
  <2>1. SitDownMove(c)
    BY <1>0, <1>4, SitDownMoves
  <2> QED
    BY <2>1 DEF SitDownMove, OnlyMove, HomeEarly
<1>5. ASSUME NEW c \in Customer, Eat(c)
      PROVE  G
  <2>1. EatMove(c)
    BY <1>0, <1>5, EatMoves
  <2> QED
    BY <2>1 DEF EatMove, OnlyMove, HomeEarly
<1>6. ASSUME NEW t \in Taker, TakerGoes(t)
      PROVE  G
  <2>1. TakerGoesMove(t)
    BY <1>0, <1>6, TakerGoesMoves
  <2>2. PICK p \in Place : p # "gone" /\ Go(T(t), p)
    <3>1. {"looking", "ready", "bagging", "bag", "buying", "checkExit", "seating", "managing"}
             \subseteq Place
      BY DEF Place
    <3>2. \E p \in {"looking", "ready", "bagging", "bag", "buying", "checkExit", "seating",
                    "managing"} : Go(T(t), p)
      BY <1>6 DEF TakerGoes, StartTaker, NobodyInLine, StartBagging, StopBagging, Exit,
         LookAtLine, orderInventoryFood, Serviced
    <3> QED
      BY <3>1, <3>2
  <2>3. at'[T(t)] # "gone"
    BY <1>0, <2>2 DEF Go
  <2> QED
    BY <2>1, <2>3 DEF TakerGoesMove, OnlyMove, HomeEarly
<1>7. ASSUME NEW t \in Taker, CallCustomer(t)
      PROVE  G
  <2>1. PICK c \in Customer : CallCustomerMove(c, t)
    BY <1>0, <1>7, CallCustomerMoves
  <2> QED
    BY <2>1 DEF CallCustomerMove, OnlyMove, HomeEarly
<1>8. ASSUME NEW t \in Taker, TakeOrder(t)
      PROVE  G
  <2>1. PICK c \in Customer : TakeOrderMove(c, t)
    BY <1>0, <1>8, TakeOrderMoves
  <2> QED
    BY <2>1 DEF TakeOrderMove, OnlyMove, HomeEarly
<1>9. ASSUME NEW t \in Taker, GiveNumber(t)
      PROVE  G
  <2>1. PICK c \in Customer : GiveNumberMove(c, t)
    BY <1>0, <1>9, GiveNumberMoves
  <2> QED
    BY <2>1 DEF GiveNumberMove, OnlyMove, HomeEarly
<1>10. ASSUME NEW t \in Taker, NoteOrder(t)
      PROVE  G
  <2>1. NoteOrderMove(t)
    BY <1>0, <1>10, NoteOrderMoves
  <2> QED
    BY <2>1 DEF NoteOrderMove, OnlyMove, HomeEarly
<1>11. ASSUME NEW t \in Taker, BagOrder(t)
      PROVE  G
  <2>1. PICK k \in Token : BagOrderMove(t, k)
    BY <1>0, <1>11, BagOrderMoves
  <2> QED
    BY <2>1 DEF BagOrderMove, LessLeft, BaggedNow, CalledNow, OnlyMove, HomeEarly
<1>12. ASSUME hireCook
      PROVE  G
  <2>1. hireCookMove
    BY <1>0, <1>12, hireCookMoves
  <2> QED
    BY <2>1 DEF hireCookMove, OnlyMove, HomeEarly
<1>13. ASSUME CookIsHired
      PROVE  G
  <2>1. CookIsHiredMove
    BY <1>0, <1>13, CookIsHiredMoves
  <2> QED
    BY <2>1 DEF CookIsHiredMove, OnlyMove, HomeEarly
<1>14. ASSUME manageCook
      PROVE  G
  <2>1. manageCookMove
    BY <1>0, <1>14, manageCookMoves
  <2> QED
    BY <2>1 DEF manageCookMove, OnlyMove, HomeEarly
<1>15. ASSUME checkLineToEnterRest
      PROVE  G
  <2>1. checkLineToEnterRestMove
    BY <1>0, <1>15, checkLineToEnterRestMoves
  <2> QED
    BY <2>1 DEF checkLineToEnterRestMove, OnlyMove, HomeEarly
<1>16. ASSUME NEW i \in Food, CookGoes(i)
      PROVE  G
  <2>1. CookGoesMove(i)
    BY <1>0, <1>16, CookGoesMoves
  <2>2. PICK p \in Place : p # "gone" /\ Go(K(i), p)
    <3>1. {"break", "stove", "checkExit", "cooking"} \subseteq Place
      BY DEF Place
    <3>2. \E p \in {"break", "stove", "checkExit", "cooking"} : Go(K(i), p)
      BY <1>16 DEF CookGoes, TakeBreak, StartCooking, FinishCooking, ExitCook
    <3> QED
      BY <3>1, <3>2
  <2>3. at'[K(i)] # "gone"
    BY <1>0, <2>2 DEF Go
  <2> QED
    BY <2>1, <2>3 DEF CookGoesMove, OnlyMove, HomeEarly
<1>17. ASSUME NEW i \in Food, StartCook(i)
      PROVE  G
  <2>1. StartCookMove(i)
    BY <1>0, <1>17, StartCookMoves
  <2> QED
    BY <2>1 DEF StartCookMove, OnlyMove, HomeEarly
<1>18. ASSUME NEW w \in Waiter, TakeBag(w)
      PROVE  G
  <2>1. TakeBagMove(w)
    BY <1>0, <1>18, TakeBagMoves
  <2> QED
    BY <2>1 DEF TakeBagMove, OnlyMove, HomeEarly
<1>19. ASSUME NEW w \in Waiter, Serve(w)
      PROVE  G
  <2>1. PICK c \in Customer : ServeMove(c, w)
    BY <1>0, <1>19, ServeMoves
  <2> QED
    BY <2>1 DEF ServeMove, OnlyMove, HomeEarly
<1>20. ASSUME NEW w \in Waiter, FinishServing(w)
      PROVE  G
  <2>1. PICK c \in Customer : FinishServingMove(c, w)
    BY <1>0, <1>20, FinishServingMoves
  <2> QED
    BY <2>1 DEF FinishServingMove, OnlyMove, HomeEarly
<1> QED
  BY <1>1, <1>2, <1>3, <1>4, <1>5, <1>6, <1>7, <1>8, <1>9, <1>10, <1>11, <1>12, <1>13,
     <1>14, <1>15, <1>16, <1>17, <1>18, <1>19, <1>20, Steps

LEMMA StaffStep ==
    ASSUME IInv, Next
    PROVE  StaffStays'
<1>0. /\ Shape /\ Shape' /\ Gone \in SUBSET Customer /\ served = Cardinality(Gone)
      /\ StaffStays /\ mode' = mode
      /\ \A c \in Customer : at[C(c)] = "gone" => at'[C(c)] = "gone"
  BY PlacedStep, TypedStep, ServedStep, CustomerSteps
     DEF IInv, Shape, Gone, ServedCounted, Is
<1>1. SUFFICES ASSUME mode = "default", NEW thread \in Thread, thread[1] # "customer",
                      at'[thread] = "gone"
               PROVE  \A c \in Customer : at'[C(c)] = "gone"
  BY <1>0 DEF StaffStays, Is
<1>2. CASE shouldExit
  <2>1. Cardinality(Gone) = NumCustomers
    BY <1>0, <1>1, <1>2 DEF shouldExit, count_WhenAllCustomersServed
  <2>2. Gone = Customer
    BY <1>0, <2>1, Counting
  <2> QED
    BY <1>0, <2>2 DEF Gone, Is
<1>3. CASE ~shouldExit
  <2>1. at[thread] = "gone"
    <3>1. \/ \E c \in Customer : thread = C(c)
          \/ \E t \in Taker : thread = T(t)
          \/ \E w \in Waiter : thread = W(w)
          \/ \E i \in Food : thread = K(i)
      BY Kinds
    <3>2. \A c : C(c)[1] = "customer"
      BY Kinds
    <3>3. \A w \in Waiter : at'[W(w)] # "gone"
      BY <1>0 DEF Shape, Placed, WaiterPlace
    <3> QED
      BY <1>1, <1>3, <3>1, <3>2, <3>3, NobodyHomeEarly DEF HomeEarly
  <2> QED
    BY <1>0, <1>1, <2>1 DEF StaffStays, Is
<1> QED
  BY <1>2, <1>3

LEMMA LinesStep ==
    ASSUME IInv, Next
    PROVE  InLines'
<1>0. /\ Shape /\ Paired /\ InLines /\ toOrder \in Seq(Customer) /\ toEnter \in Seq(Customer)
      /\ Range(toOrder) \subseteq Customer /\ Range(toEnter) \subseteq Customer
  <2>1. toOrder \in Seq(Customer) /\ toEnter \in Seq(Customer)
    BY DEF IInv, Shape, Typed
  <2>2. Range(toOrder) \subseteq Customer
    BY <2>1, RangeOfSeq
  <2>3. Range(toEnter) \subseteq Customer
    BY <2>1, RangeOfSeq
  <2> QED
    BY <2>1, <2>2, <2>3 DEF IInv
<1>10. /\ IsInjective(toOrder) /\ \A c \in Range(toOrder) : at[C(c)] = "waiting"
       /\ IsInjective(toEnter)
       /\ \A c \in Range(toEnter) : at[C(c)] \notin {"absent", "new", "outside"}
  BY <1>0 DEF InLines, Is
<1> SUFFICES
        /\ IsInjective(toOrder') /\ \A c \in Range(toOrder') : at'[C(c)] = "waiting"
        /\ IsInjective(toEnter')
        /\ \A c \in Range(toEnter') : at'[C(c)] \notin {"absent", "new", "outside"}
  BY DEF InLines, Is
<1> DEFINE G == /\ IsInjective(toOrder') /\ \A c \in Range(toOrder') : at'[C(c)] = "waiting"
                /\ IsInjective(toEnter')
                /\ \A c \in Range(toEnter') : at'[C(c)] \notin {"absent", "new", "outside"}
<1>1. ASSUME toEnter' = toEnter, toOrder' = toOrder,
             \A c \in Customer : at[C(c)] = "waiting" => at'[C(c)] = "waiting",
             \A c \in Customer : at'[C(c)] \in {"absent", "new", "outside"}
                                   => at[C(c)] \in {"absent", "new", "outside"}
      PROVE  G
  BY <1>0, <1>1, <1>10
<1>2. CASE CustomersQuiet
  BY <1>1, <1>2 DEF CustomersQuiet, Turn, From
<1>3. CASE checkLineToEnterRest
  BY <1>0, <1>1, <1>3, checkLineToEnterRestMoves DEF checkLineToEnterRestMove, OnlyMove
<1>4. ASSUME NEW c \in Customer, CustomerGoes(c)
      PROVE  G
  <2>1. /\ CustomerGoesMove(c) /\ \A d \in Customer \ {c} : at'[C(d)] = at[C(d)]
        /\ at[C(c)] # "waiting"
    BY <1>0, <1>4, CustomerGoesMoves, OneCustomer
  <2>2. CASE at[C(c)] = "outside"
    <3>1. toEnter' = Append(toEnter, c) /\ toOrder' = toOrder /\ at'[C(c)] = "inLine"
      <4>1. JoinLineToEnter(c)
        BY <1>0, <1>4, <2>2, OneCustomer
      <4> QED
        BY <2>1, <2>2, <4>1 DEF JoinLineToEnter, CustomerGoesMove, From
    <3>2. c \notin Range(toEnter)
      BY <1>10, <2>2
    <3>3. Range(Append(toEnter, c)) = Range(toEnter) \cup {c} /\ IsInjective(Append(toEnter, c))
      BY <1>0, <1>10, <3>2, AppendQueue
    <3> QED
      BY <1>0, <1>10, <2>1, <3>1, <3>3
  <2>3. CASE at[C(c)] = "entering"
    <3>1. EnterRest(c)
      BY <1>0, <1>4, <2>3, OneCustomer
    <3>2. toEnter' = SubSeq(toEnter, 1, Len(toEnter) - 1) /\ toOrder' = toOrder
          /\ at'[C(c)] = "hungry"
      BY <2>1, <2>3, <3>1 DEF EnterRest, CustomerGoesMove, From
    <3>3. /\ Range(SubSeq(toEnter, 1, Len(toEnter) - 1)) \subseteq Range(toEnter)
          /\ IsInjective(SubSeq(toEnter, 1, Len(toEnter) - 1))
      BY <1>0, <1>10, ShorterLine
    <3> QED
      BY <1>0, <1>10, <2>1, <2>3, <3>2, <3>3
  <2>4. CASE at[C(c)] = "hungry"
    <3>1. JoinLineToOrder(c)
      BY <1>0, <1>4, <2>4, OneCustomer
    <3>2. toOrder' = Append(toOrder, c) /\ toEnter' = toEnter /\ at'[C(c)] = "waiting"
      BY <2>1, <2>4, <3>1 DEF JoinLineToOrder, CustomerGoesMove, From
    <3>3. c \notin Range(toOrder)
      BY <1>10, <2>4
    <3>4. Range(Append(toOrder, c)) = Range(toOrder) \cup {c} /\ IsInjective(Append(toOrder, c))
      BY <1>0, <1>10, <3>3, AppendQueue
    <3> QED
      BY <1>0, <1>10, <2>1, <2>4, <3>2, <3>4
  <2>5. CASE at[C(c)] \notin {"outside", "entering", "hungry"}
    <3>1. toEnter' = toEnter /\ toOrder' = toOrder
      BY <1>0, <1>4, <2>5, OneCustomer DEF CustomerGoes, StartCustomer, FreeTable, CheckOrder,
         LeaveRestaurant, lines
    <3>2. at'[C(c)] \in {"absent", "new", "outside"} => at[C(c)] \in {"absent", "new", "outside"}
      BY <2>1 DEF CustomerGoesMove, From
    <3> QED
      BY <1>1, <2>1, <3>1, <3>2
  <2> QED
    BY <2>2, <2>3, <2>4, <2>5
<1>5. ASSUME NEW t \in Taker, CallCustomer(t)
      PROVE  G
  <2>1. PICK c \in Customer : CallCustomerMove(c, t)
    BY <1>0, <1>5, CallCustomerMoves
  <2>2. /\ c = Last(toOrder) /\ toOrder # <<>> /\ toOrder' = Front(toOrder) /\ toEnter' = toEnter
        /\ at'[C(c)] = "called" /\ \A d \in Customer \ {c} : at'[C(d)] = at[C(d)]
    BY <2>1 DEF CallCustomerMove, OnlyMove
  <2>3. /\ Range(Front(toOrder)) \subseteq Range(toOrder)
        /\ IsInjective(Front(toOrder)) /\ Last(toOrder) \notin Range(Front(toOrder))
    BY <1>0, <1>10, <2>2, FrontQueue
  <2> QED
    BY <1>0, <1>10, <2>2, <2>3
<1>6. ASSUME NEW t \in Taker, GiveNumber(t)
      PROVE  G
  <2>1. PICK c \in Customer : GiveNumberMove(c, t)
    BY <1>0, <1>6, GiveNumberMoves
  <2>2. toEnter' = toEnter /\ toOrder' = toOrder
    BY <2>1 DEF GiveNumberMove, lines
  <2> QED
    BY <1>1, <2>1, <2>2 DEF GiveNumberMove, OnlyMove
<1> QED
  BY <1>2, <1>3, <1>4, <1>5, <1>6, CustomerSteps

LEMMA SideStep ==
    ASSUME IInv, Next
    PROVE  RightSide'
<1>0. /\ Shape /\ Paired /\ InLines /\ RightSide /\ eatIn \in [Customer -> BOOLEAN]
  BY DEF IInv, Shape, Typed
<1> DEFINE G(d) ==
              /\ at'[C(d)] \in {"outside", "inLine", "entering", "sitting", "fed", "leaving"}
                    => eatIn'[d]
              /\ at'[C(d)] \in {"listening", "checking"} => ~eatIn'[d]
<1> SUFFICES ASSUME NEW d \in Customer
             PROVE  G(d)
  BY DEF RightSide
<1>1. ASSUME eatIn'[d] = eatIn[d], at'[C(d)] = at[C(d)]
      PROVE  G(d)
  BY <1>0, <1>1 DEF RightSide
<1>2. CASE CustomersQuiet
  BY <1>0, <1>2 DEF CustomersQuiet, Turn, From, RightSide
<1>3. CASE checkLineToEnterRest
  BY <1>0, <1>3, checkLineToEnterRestMoves DEF checkLineToEnterRestMove, OnlyMove, RightSide
<1>4. ASSUME NEW c \in Customer, CustomerGoes(c)
      PROVE  G(d)
  <2>1. /\ CustomerGoesMove(c) /\ \A e \in Customer \ {c} : at'[C(e)] = at[C(e)]
    BY <1>0, <1>4, CustomerGoesMoves, OneCustomer
  <2>2. CASE at[C(c)] = "new"
    <3>1. PICK e \in BOOLEAN :
             eatIn' = [eatIn EXCEPT ![c] = e] /\ Go(C(c), IF e THEN "outside" ELSE "hungry")
      BY <1>0, <1>4, <2>2, OneCustomer DEF StartCustomer
    <3>2. at'[C(c)] = IF e THEN "outside" ELSE "hungry"
      <4>1. at \in [Thread -> Place] /\ C(c) \in Thread
        BY <1>0, Names DEF Shape, Placed
      <4> QED
        BY <3>1, <4>1 DEF Go
    <3> QED
      BY <1>0, <1>1, <2>1, <3>1, <3>2
  <2>3. CASE at[C(c)] # "new"
    <3>1. eatIn' = eatIn
      BY <1>0, <1>4, <2>3, OneCustomer DEF CustomerGoes, JoinLineToEnter, EnterRest,
         JoinLineToOrder, FreeTable, CheckOrder, LeaveRestaurant
    <3>2. at[C(c)] = "numbered" => ~eatIn[c]
      BY <1>0, <1>4, OneCustomer DEF CheckOrder, Is
    <3> QED
      BY <1>0, <1>1, <2>1, <2>3, <3>1, <3>2 DEF CustomerGoesMove, From, RightSide
  <2> QED
    BY <2>2, <2>3
<1>5. ASSUME NEW t \in Taker, CallCustomer(t)
      PROVE  G(d)
  BY <1>0, <1>1, <1>5, CallCustomerMoves DEF CallCustomerMove, OnlyMove
<1>6. ASSUME NEW t \in Taker, GiveNumber(t)
      PROVE  G(d)
  BY <1>0, <1>1, <1>6, GiveNumberMoves DEF GiveNumberMove, OnlyMove
<1> QED
  BY <1>2, <1>3, <1>4, <1>5, <1>6, CustomerSteps

LEMMA NumbersStep ==
    ASSUME IInv, Next
    PROVE  NumbersGiven'
<1>0. /\ Shape /\ Paired /\ InLines /\ NumbersGiven /\ ownerOf \in Seq(Customer)
      /\ tokenOf \in [Customer -> Nat] /\ Range(ownerOf) \subseteq Customer
  <2>1. ownerOf \in Seq(Customer)
    BY DEF IInv, Shape, Typed
  <2>2. Range(ownerOf) \subseteq Customer
    BY <2>1, RangeOfSeq
  <2> QED
    BY <2>1, <2>2 DEF IInv, Shape, Typed
<1>1. ASSUME ownerOf' = ownerOf, tokenOf' = tokenOf,
             \A c \in Customer : at[C(c)] \in Numbered <=> at'[C(c)] \in Numbered
      PROVE  NumbersGiven'
  BY <1>0, <1>1 DEF NumbersGiven
<1>2. CASE CustomersQuiet
  BY <1>1, <1>2 DEF CustomersQuiet, Turn, From, Numbered
<1>3. CASE checkLineToEnterRest
  BY <1>0, <1>1, <1>3, checkLineToEnterRestMoves
     DEF checkLineToEnterRestMove, OnlyMove, meeting, Numbered
<1>4. ASSUME NEW c \in Customer, CustomerGoes(c)
      PROVE  NumbersGiven'
  BY <1>0, <1>1, <1>4, CustomerGoesMoves DEF CustomerGoesMove, OnlyMove, From, meeting, Numbered
<1>5. ASSUME NEW t \in Taker, CallCustomer(t)
      PROVE  NumbersGiven'
  BY <1>0, <1>1, <1>5, CallCustomerMoves DEF CallCustomerMove, OnlyMove, Numbered
<1>6. ASSUME NEW t \in Taker, GiveNumber(t)
      PROVE  NumbersGiven'
  <2>1. PICK c \in Customer : GiveNumberMove(c, t)
    BY <1>0, <1>6, GiveNumberMoves
  <2>2. /\ tokenOf' = [tokenOf EXCEPT ![c] = Len(ownerOf)] /\ ownerOf' = Append(ownerOf, c)
        /\ at[C(c)] = "paying" /\ at'[C(c)] = "numbered"
        /\ \A d \in Customer \ {c} : at'[C(d)] = at[C(d)]
    BY <2>1 DEF GiveNumberMove, OnlyMove
  <2>3. c \notin Range(ownerOf) /\ IsInjective(ownerOf)
        /\ \A d \in Customer : d \in Range(ownerOf) <=> at[C(d)] \in Numbered
    BY <1>0, <2>2 DEF NumbersGiven, Numbered
  <2>4. /\ Range(Append(ownerOf, c)) = Range(ownerOf) \cup {c}
        /\ IsInjective(Append(ownerOf, c))
    BY <1>0, <2>3, AppendQueue
  <2>5. \A d \in Customer : d \in Range(ownerOf') <=> at'[C(d)] \in Numbered
    BY <2>2, <2>3, <2>4 DEF Numbered
  <2>6. Len(ownerOf) \in Nat /\ Len(ownerOf') = Len(ownerOf) + 1
        /\ ownerOf'[Len(ownerOf) + 1] = c
        /\ \A k \in 1..Len(ownerOf) : ownerOf'[k] = ownerOf[k]
    BY <1>0, <2>2
  <2>7. \A k \in 1..Len(ownerOf) : ownerOf[k] \in Customer /\ ownerOf[k] # c
    <3>1. Range(ownerOf) = {ownerOf[i] : i \in 1..Len(ownerOf)}
      BY <1>0, RangeEquality
    <3> QED
      BY <1>0, <2>3, <3>1
  <2>8. \A k \in 1..Len(ownerOf) : tokenOf[ownerOf[k]] = k - 1
    BY <1>0 DEF NumbersGiven
  <2>9. tokenOf'[c] = Len(ownerOf) /\ \A d \in Customer \ {c} : tokenOf'[d] = tokenOf[d]
    BY <1>0, <2>2, <2>6
  <2>10. ASSUME NEW k \in 1..Len(ownerOf')
         PROVE  tokenOf'[ownerOf'[k]] = k - 1
    <3>1. CASE k \in 1..Len(ownerOf)
      BY <2>6, <2>7, <2>8, <2>9, <3>1
    <3>2. CASE k = Len(ownerOf) + 1
      BY <2>6, <2>9, <3>2
    <3>3. k \in 1..Len(ownerOf) \/ k = Len(ownerOf) + 1
      BY <2>6
    <3> QED
      BY <3>1, <3>2, <3>3
  <2> QED
    BY <2>2, <2>4, <2>5, <2>10 DEF NumbersGiven
<1> QED
  BY <1>2, <1>3, <1>4, <1>5, <1>6, CustomerSteps

LEMMA TablesStep ==
    ASSUME IInv, Next
    PROVE  TablesSound'
<1>0. /\ Shape /\ Paired /\ InLines /\ RightSide /\ eatIn \in [Customer -> BOOLEAN]
      /\ tables \in Nat /\ Seated \in SUBSET Customer
      /\ tables + Cardinality(Seated) <= NumTables
  BY DEF IInv, Shape, Typed, Seated, TablesSound
<1>10. Cardinality(Seated) \in Nat /\ NumTables \in Nat
  BY <1>0, Counting
<1>1. ASSUME tables' = tables \/ (tables > 0 /\ tables' = tables - 1),
             \A d \in Customer : (eatIn'[d] /\ at'[C(d)] \in Inside)
                                   <=> (eatIn[d] /\ at[C(d)] \in Inside)
      PROVE  TablesSound'
  <2>1. Seated' = Seated
    BY <1>1 DEF Seated
  <2> QED
    BY <1>0, <1>1, <1>10, <2>1 DEF TablesSound
<1>2. CASE CustomersQuiet
  BY <1>1, <1>2 DEF CustomersQuiet, Turn, From, Inside
<1>3. CASE checkLineToEnterRest
  <2>1. checkLineToEnterRestMove /\ eatIn' = eatIn
    BY <1>0, <1>3, checkLineToEnterRestMoves DEF checkLineToEnterRest
  <2>2. CASE /\ OnlyMove({}, {Manager}, {}, {})
             /\ tables' = tables \/ (tables > 0 /\ tables' = tables - 1)
    BY <1>1, <2>1, <2>2 DEF OnlyMove
  <2>3. ASSUME NEW c \in Customer, at[C(c)] = "inLine", at'[C(c)] = "entering",
               OnlyMove({c}, {Manager}, {}, {}), tables > 0, tables' = tables - 1
        PROVE  TablesSound'
    <3>1. eatIn[c] /\ c \notin Seated
      BY <1>0, <2>3 DEF RightSide, Seated, Inside
    <3>2. Seated' = Seated \cup {c}
      BY <2>1, <2>3, <3>1 DEF Seated, Inside, OnlyMove
    <3>3. Cardinality(Seated \cup {c}) = Cardinality(Seated) + 1
      BY <1>0, <3>1, Counting
    <3> QED
      BY <1>0, <1>10, <2>3, <3>2, <3>3 DEF TablesSound
  <2> QED
    BY <2>1, <2>2, <2>3 DEF checkLineToEnterRestMove
<1>4. ASSUME NEW c \in Customer, CustomerGoes(c)
      PROVE  TablesSound'
  <2>1. /\ CustomerGoesMove(c) /\ \A e \in Customer \ {c} : at'[C(e)] = at[C(e)]
    BY <1>0, <1>4, CustomerGoesMoves, OneCustomer
  <2>2. CASE at[C(c)] = "new"
    <3>1. PICK e \in BOOLEAN :
             eatIn' = [eatIn EXCEPT ![c] = e] /\ Go(C(c), IF e THEN "outside" ELSE "hungry")
      BY <1>0, <1>4, <2>2, OneCustomer DEF StartCustomer
    <3>2. at'[C(c)] = IF e THEN "outside" ELSE "hungry"
      <4>1. at \in [Thread -> Place] /\ C(c) \in Thread
        BY <1>0, Names DEF Shape, Placed
      <4> QED
        BY <3>1, <4>1 DEF Go
    <3>3. tables' = tables
      BY <1>0, <1>4, <2>2, OneCustomer DEF StartCustomer, lines
    <3>4. eatIn'[c] = e /\ \A d \in Customer \ {c} : eatIn'[d] = eatIn[d]
      BY <1>0, <3>1
    <3>5. at[C(c)] \notin Inside /\ ~(eatIn'[c] /\ at'[C(c)] \in Inside)
      BY <2>2, <3>2, <3>4 DEF Inside
    <3> QED
      BY <1>1, <2>1, <3>3, <3>4, <3>5
  <2>3. CASE at[C(c)] = "leaving"
    <3>1. FreeTable(c) /\ at'[C(c)] = "full"
      BY <1>0, <1>4, <2>1, <2>3, OneCustomer DEF CustomerGoesMove, From
    <3>2. tables' = tables + 1 /\ eatIn' = eatIn
      BY <3>1 DEF FreeTable
    <3>3. eatIn[c] /\ c \in Seated
      BY <1>0, <2>3 DEF RightSide, Seated, Inside
    <3>4. Seated' = Seated \ {c}
      BY <2>1, <3>1, <3>2 DEF Seated, Inside
    <3>5. Cardinality(Seated \ {c}) = Cardinality(Seated) - 1
      BY <1>0, <3>3, Counting
    <3> QED
      BY <1>0, <1>10, <3>2, <3>4, <3>5 DEF TablesSound
  <2>4. CASE at[C(c)] \notin {"new", "leaving"}
    <3>1. eatIn' = eatIn /\ tables' = tables
      BY <1>0, <1>4, <2>4, OneCustomer DEF CustomerGoes, JoinLineToEnter, EnterRest,
         JoinLineToOrder, CheckOrder, LeaveRestaurant, lines
    <3>2. at[C(c)] = "numbered" => ~eatIn[c]
      BY <1>0, <1>4, OneCustomer DEF CheckOrder, Is
    <3> QED
      BY <1>1, <2>1, <2>4, <3>1, <3>2 DEF CustomerGoesMove, From, Inside
  <2> QED
    BY <2>2, <2>3, <2>4
<1>5. ASSUME NEW t \in Taker, CallCustomer(t)
      PROVE  TablesSound'
  BY <1>0, <1>1, <1>5, CallCustomerMoves DEF CallCustomerMove, OnlyMove, Inside
<1>6. ASSUME NEW t \in Taker, GiveNumber(t)
      PROVE  TablesSound'
  BY <1>0, <1>1, <1>6, GiveNumberMoves DEF GiveNumberMove, OnlyMove, Inside, lines
<1> QED
  BY <1>2, <1>3, <1>4, <1>5, <1>6, CustomerSteps

-----------------------------------------------------------------------------
(* Takers and the customers they have called *)

\* Nobody comes to a meeting or leaves one, other than to note the order.
MeetingQuiet ==
    /\ UNCHANGED <<mode, takerOf, custOf, choice, busyWait>>
    /\ \A t \in Taker :
         \/ at'[T(t)] = at[T(t)]
         \/ /\ at[T(t)] \notin {"asking", "asked", "charging", "paid"}
            /\ at'[T(t)] \notin {"asking", "asked", "charging", "paid", "noting"}
    /\ \A c \in Customer :
         \/ at'[C(c)] = at[C(c)]
         \/ /\ at[C(c)] \notin {"called", "ordering", "answered", "paying"}
            /\ at'[C(c)] \notin {"called", "ordering", "answered", "paying"}
            /\ at[C(c)] = "numbered" => at[T(takerOf[c])] # "noting"

LEMMA MeetingSteps ==
    ASSUME IInv, Next
    PROVE  \/ MeetingQuiet
           \/ \E c \in Customer : GiveOrder(c) \/ Pay(c)
           \/ \E t \in Taker : CallCustomer(t) \/ TakeOrder(t) \/ GiveNumber(t)
<1>0. /\ Shape /\ Paired /\ InLines /\ LoopsBounded /\ NumbersGiven /\ OncePlaced
      /\ PlacedIsGiven /\ OwnersFit /\ TableQueues
  BY DEF IInv, Shape
<1>1. ASSUME NEW c \in Customer, CustomerGoes(c)
      PROVE  MeetingQuiet
  <2>1. CustomerGoesMove(c)
    BY <1>0, <1>1, CustomerGoesMoves
  <2> QED
    BY <2>1 DEF CustomerGoesMove, OnlyMove, MeetingQuiet, meeting, From, Alone
<1>2. ASSUME NEW c \in Customer, SitDown(c)
      PROVE  MeetingQuiet
  <2>1. SitDownMove(c)
    BY <1>0, <1>2, SitDownMoves
  <2>2. at[T(takerOf[c])] # "noting"
    BY <1>2 DEF SitDown, BusyFree, Is
  <2> QED
    BY <2>1, <2>2 DEF SitDownMove, OnlyMove, MeetingQuiet, meeting
<1>3. ASSUME NEW c \in Customer, Eat(c)
      PROVE  MeetingQuiet
  <2>1. EatMove(c)
    BY <1>0, <1>3, EatMoves
  <2> QED
    BY <2>1 DEF EatMove, OnlyMove, MeetingQuiet, meeting, From, Alone
<1>4. ASSUME NEW t \in Taker, TakerGoes(t)
      PROVE  MeetingQuiet
  <2>1. TakerGoesMove(t)
    BY <1>0, <1>4, TakerGoesMoves
  <2> QED
    BY <2>1 DEF TakerGoesMove, OnlyMove, MeetingQuiet, meeting, From, Alone
<1>5. ASSUME NEW t \in Taker, NoteOrder(t)
      PROVE  MeetingQuiet
  <2>1. NoteOrderMove(t)
    BY <1>0, <1>5, NoteOrderMoves
  <2> QED
    BY <2>1 DEF NoteOrderMove, OnlyMove, MeetingQuiet, meeting, From, Alone
<1>6. ASSUME NEW t \in Taker, BagOrder(t)
      PROVE  MeetingQuiet
  <2>1. PICK k \in Token : BagOrderMove(t, k)
    BY <1>0, <1>6, BagOrderMoves
  <2>2. /\ \A s \in Taker : at'[T(s)] = at[T(s)]
        /\ \A c \in Customer :
             at'[C(c)] = at[C(c)] \/ (at[C(c)] = "listening" /\ at'[C(c)] = "checking")
    BY <2>1 DEF BagOrderMove, LessLeft, BaggedNow, CalledNow, OnlyMove
  <2> QED
    BY <2>1, <2>2 DEF BagOrderMove, MeetingQuiet, meeting
<1>7. ASSUME hireCook
      PROVE  MeetingQuiet
  <2>1. hireCookMove
    BY <1>0, <1>7, hireCookMoves
  <2> QED
    BY <2>1 DEF hireCookMove, OnlyMove, MeetingQuiet, meeting, From, Alone
<1>8. ASSUME CookIsHired
      PROVE  MeetingQuiet
  <2>1. CookIsHiredMove
    BY <1>0, <1>8, CookIsHiredMoves
  <2> QED
    BY <2>1 DEF CookIsHiredMove, OnlyMove, MeetingQuiet, meeting, From, Alone
<1>9. ASSUME manageCook
      PROVE  MeetingQuiet
  <2>1. manageCookMove
    BY <1>0, <1>9, manageCookMoves
  <2> QED
    BY <2>1 DEF manageCookMove, OnlyMove, MeetingQuiet, meeting, From, Alone
<1>10. ASSUME checkLineToEnterRest
      PROVE  MeetingQuiet
  <2>1. checkLineToEnterRestMove
    BY <1>0, <1>10, checkLineToEnterRestMoves
  <2> QED
    BY <2>1 DEF checkLineToEnterRestMove, OnlyMove, MeetingQuiet, meeting, From, Alone
<1>11. ASSUME NEW i \in Food, CookGoes(i)
      PROVE  MeetingQuiet
  <2>1. CookGoesMove(i)
    BY <1>0, <1>11, CookGoesMoves
  <2> QED
    BY <2>1 DEF CookGoesMove, OnlyMove, MeetingQuiet, meeting, From, Alone
<1>12. ASSUME NEW i \in Food, StartCook(i)
      PROVE  MeetingQuiet
  <2>1. StartCookMove(i)
    BY <1>0, <1>12, StartCookMoves
  <2> QED
    BY <1>0, <2>1 DEF StartCookMove, OnlyMove, MeetingQuiet, meeting, LoopsBounded, Is
<1>13. ASSUME NEW w \in Waiter, TakeBag(w)
      PROVE  MeetingQuiet
  <2>1. TakeBagMove(w)
    BY <1>0, <1>13, TakeBagMoves
  <2> QED
    BY <2>1 DEF TakeBagMove, OnlyMove, MeetingQuiet, meeting, From, Alone
<1>14. ASSUME NEW w \in Waiter, Serve(w)
      PROVE  MeetingQuiet
  <2>1. PICK c \in Customer : ServeMove(c, w)
    BY <1>0, <1>14, ServeMoves
  <2> QED
    BY <2>1 DEF ServeMove, OnlyMove, MeetingQuiet, meeting, From, Alone
<1>15. ASSUME NEW w \in Waiter, FinishServing(w)
      PROVE  MeetingQuiet
  <2>1. PICK c \in Customer : FinishServingMove(c, w)
    BY <1>0, <1>15, FinishServingMoves
  <2> QED
    BY <2>1 DEF FinishServingMove, OnlyMove, MeetingQuiet, meeting, From, Alone
<1> QED
  BY <1>1, <1>2, <1>3, <1>4, <1>5, <1>6, <1>7, <1>8, <1>9, <1>10, <1>11, <1>12, <1>13,
     <1>14, <1>15, Steps

\* A step of one customer and one taker who meet leaves the other meetings alone.
LEMMA OtherMeetings ==
    ASSUME Shape, Paired, NEW c \in Customer, NEW t \in Taker, mode' = mode,
           OnlyMove({c}, {t}, {}, {}),
           \A s \in Taker \ {t} :
              custOf'[s] = custOf[s] /\ choice'[s] = choice[s] /\ busyWait'[s] = busyWait[s],
           \A d \in Customer \ {c} : takerOf'[d] = takerOf[d],
           takerOf[c] = t \/ at[C(c)] = "waiting",
           custOf[t] = c \/ at[T(t)] = "ready",
           PairedTaker(t)', PairedCustomer(c)'
    PROVE  Paired'
<1>0. \A x : OrderOf(x)' = OrderOf(x)
  BY DEF OrderOf
<1>1. ASSUME NEW s \in Taker, s # t
      PROVE  PairedTaker(s)'
  <2>1. /\ PairedTaker(s) /\ custOf[s] \in Customer /\ at'[T(s)] = at[T(s)]
        /\ custOf'[s] = custOf[s] /\ choice'[s] = choice[s] /\ busyWait'[s] = busyWait[s]
    BY <1>1 DEF Paired, Shape, Typed, OnlyMove
  <2>2. CASE at[T(s)] \in {"asking", "asked", "charging", "paid", "noting"}
    <3>1. takerOf[custOf[s]] = s /\ at[C(custOf[s])] # "waiting"
      BY <2>1, <2>2 DEF PairedTaker, Is
    <3>2. custOf[s] # c
      BY <1>1, <3>1
    <3>3. takerOf'[custOf[s]] = takerOf[custOf[s]] /\ at'[C(custOf[s])] = at[C(custOf[s])]
      BY <2>1, <3>2 DEF OnlyMove
    <3> QED
      BY <1>0, <2>1, <3>3 DEF PairedTaker, Is
  <2>3. CASE at[T(s)] \notin {"asking", "asked", "charging", "paid", "noting"}
    BY <2>1, <2>3 DEF PairedTaker, Is
  <2> QED
    BY <2>2, <2>3
<1>2. ASSUME NEW d \in Customer, d # c
      PROVE  PairedCustomer(d)'
  <2>1. /\ PairedCustomer(d) /\ takerOf[d] \in Taker /\ at'[C(d)] = at[C(d)]
        /\ takerOf'[d] = takerOf[d]
    BY <1>2 DEF Paired, Shape, Typed, OnlyMove
  <2>2. CASE at[C(d)] \in {"called", "ordering", "answered", "paying"}
    <3>1. custOf[takerOf[d]] = d /\ at[T(takerOf[d])] # "ready"
      BY <2>1, <2>2 DEF PairedCustomer, Is
    <3>2. takerOf[d] # t
      BY <1>2, <3>1
    <3>3. custOf'[takerOf[d]] = custOf[takerOf[d]] /\ at'[T(takerOf[d])] = at[T(takerOf[d])]
      BY <2>1, <3>2 DEF OnlyMove
    <3> QED
      BY <2>1, <3>3 DEF PairedCustomer, Is
  <2>3. CASE at[C(d)] \notin {"called", "ordering", "answered", "paying"}
    BY <2>1, <2>3 DEF PairedCustomer, Is
  <2> QED
    BY <2>2, <2>3
<1> QED
  BY <1>1, <1>2 DEF Paired

LEMMA PairedStep ==
    ASSUME IInv, Next
    PROVE  Paired'
<1>0. /\ Shape /\ Paired /\ InLines
      /\ takerOf \in [Customer -> Taker] /\ custOf \in [Taker -> Customer]
      /\ choice \in [Taker -> SUBSET Nat] /\ busyWait \in [Taker -> Seq(Thread)]
      /\ \A t \in Taker : PairedTaker(t)
      /\ \A c \in Customer : PairedCustomer(c)
  BY DEF IInv, Shape, Typed, Paired
<1>1. CASE MeetingQuiet
  <2>0. \A x : OrderOf(x)' = OrderOf(x)
    BY <1>1 DEF OrderOf, MeetingQuiet
  <2>1. ASSUME NEW s \in Taker
        PROVE  PairedTaker(s)'
    <3>1. /\ PairedTaker(s) /\ custOf[s] \in Customer /\ UNCHANGED <<takerOf, custOf, choice, busyWait>>
      BY <1>0, <1>1 DEF MeetingQuiet
    <3>2. CASE at'[T(s)] \in {"asking", "asked", "charging", "paid", "noting"}
      <4>1. at'[T(s)] = at[T(s)]
        BY <1>1, <3>2 DEF MeetingQuiet
      <4>2. /\ at[C(custOf[s])] \in {"called", "ordering", "answered", "paying", "numbered"}
            /\ takerOf[custOf[s]] = s
            /\ at[C(custOf[s])] = "numbered" => at[T(s)] = "noting"
        BY <3>1, <3>2, <4>1 DEF PairedTaker, Is
      <4>3. at'[C(custOf[s])] = at[C(custOf[s])]
        BY <1>1, <3>1, <4>2 DEF MeetingQuiet
      <4> QED
        BY <2>0, <3>1, <4>1, <4>3 DEF PairedTaker, Is
    <3>3. CASE at'[T(s)] \notin {"asking", "asked", "charging", "paid", "noting"}
      <4>1. at[T(s)] \notin {"asking", "asked", "charging", "paid"}
        BY <1>1, <3>3 DEF MeetingQuiet
      <4> QED
        BY <3>1, <3>3, <4>1 DEF PairedTaker, Is
    <3> QED
      BY <3>2, <3>3
  <2>2. ASSUME NEW d \in Customer
        PROVE  PairedCustomer(d)'
    <3>1. PairedCustomer(d) /\ takerOf[d] \in Taker /\ UNCHANGED <<takerOf, custOf>>
      BY <1>0, <1>1 DEF MeetingQuiet
    <3>2. CASE at'[C(d)] \in {"called", "ordering", "answered", "paying"}
      <4>1. at'[C(d)] = at[C(d)]
        BY <1>1, <3>2 DEF MeetingQuiet
      <4>2. at[T(takerOf[d])] \in {"asking", "asked", "charging", "paid"}
        BY <3>1, <3>2, <4>1 DEF PairedCustomer, Is
      <4>3. at'[T(takerOf[d])] = at[T(takerOf[d])]
        BY <1>1, <3>1, <4>2 DEF MeetingQuiet
      <4> QED
        BY <3>1, <4>1, <4>3 DEF PairedCustomer, Is
    <3>3. CASE at'[C(d)] \notin {"called", "ordering", "answered", "paying"}
      BY <3>3 DEF PairedCustomer, Is
    <3> QED
      BY <3>2, <3>3
  <2> QED
    BY <2>1, <2>2 DEF Paired
<1>2. ASSUME NEW c \in Customer, GiveOrder(c)
      PROVE  Paired'
  <2>1. PICK t \in Taker : GiveOrderMove(c, t)
    BY <1>0, <1>2, GiveOrderMoves
  <2>2. mode' = mode /\ OnlyMove({c}, {t}, {}, {}) /\ c \in Customer /\ t \in Taker
    BY <2>1, <1>2 DEF GiveOrderMove
  <2>3. /\ takerOf[c] = t /\ custOf[t] = c
        /\ takerOf'[c] = t /\ custOf'[t] = c
        /\ \A s \in Taker \ {t} :
              custOf'[s] = custOf[s] /\ choice'[s] = choice[s] /\ busyWait'[s] = busyWait[s]
        /\ \A d \in Customer \ {c} : takerOf'[d] = takerOf[d]
    BY <1>0, <2>1, <2>2 DEF GiveOrderMove
  <2>4. \A x : OrderOf(x)' = OrderOf(x)
    BY <2>2 DEF OrderOf
  <2>5. at'[C(c)] = "ordering" /\ at'[T(t)] = "asked" /\ busyWait'[t] = <<C(c)>>
    BY <1>0, <2>1, <2>2 DEF GiveOrderMove
  <2>6. choice'[t] = OrderOf(c)
    BY <1>0, <2>1, <2>2 DEF GiveOrderMove
  <2>7. PairedTaker(t)'
    BY <2>3, <2>4, <2>5, <2>6 DEF PairedTaker, Is
  <2>8. PairedCustomer(c)'
    BY <2>3, <2>5 DEF PairedCustomer, Is
  <2> QED
    BY <1>0, <2>2, <2>3, <2>7, <2>8, OtherMeetings
<1>3. ASSUME NEW c \in Customer, Pay(c)
      PROVE  Paired'
  <2>1. PICK t \in Taker : PayMove(c, t)
    BY <1>0, <1>3, PayMoves
  <2>2. mode' = mode /\ OnlyMove({c}, {t}, {}, {}) /\ c \in Customer /\ t \in Taker
    BY <2>1, <1>3 DEF PayMove
  <2>3. /\ takerOf[c] = t /\ custOf[t] = c
        /\ takerOf'[c] = t /\ custOf'[t] = c
        /\ \A s \in Taker \ {t} :
              custOf'[s] = custOf[s] /\ choice'[s] = choice[s] /\ busyWait'[s] = busyWait[s]
        /\ \A d \in Customer \ {c} : takerOf'[d] = takerOf[d]
    BY <1>0, <2>1, <2>2 DEF PayMove
  <2>4. \A x : OrderOf(x)' = OrderOf(x)
    BY <2>2 DEF OrderOf
  <2>5. at'[C(c)] = "paying" /\ at'[T(t)] = "paid" /\ busyWait'[t] = <<C(c)>>
    BY <1>0, <2>1, <2>2 DEF PayMove
  <2>6. choice'[t] = OrderOf(c)
    BY <1>0, <2>1, <2>2 DEF PayMove, PairedTaker, Is
  <2>7. PairedTaker(t)'
    BY <2>3, <2>4, <2>5, <2>6 DEF PairedTaker, Is
  <2>8. PairedCustomer(c)'
    BY <2>3, <2>5 DEF PairedCustomer, Is
  <2> QED
    BY <1>0, <2>2, <2>3, <2>7, <2>8, OtherMeetings
<1>4. ASSUME NEW t \in Taker, CallCustomer(t)
      PROVE  Paired'
  <2>1. PICK c \in Customer : CallCustomerMove(c, t)
    BY <1>0, <1>4, CallCustomerMoves
  <2>2. mode' = mode /\ OnlyMove({c}, {t}, {}, {}) /\ c \in Customer /\ t \in Taker
    BY <2>1, <1>4 DEF CallCustomerMove
  <2>3. /\ at[C(c)] = "waiting" /\ at[T(t)] = "ready"
        /\ takerOf'[c] = t /\ custOf'[t] = c
        /\ \A s \in Taker \ {t} :
              custOf'[s] = custOf[s] /\ choice'[s] = choice[s] /\ busyWait'[s] = busyWait[s]
        /\ \A d \in Customer \ {c} : takerOf'[d] = takerOf[d]
    BY <1>0, <2>1, <2>2 DEF CallCustomerMove
  <2>4. \A x : OrderOf(x)' = OrderOf(x)
    BY <2>2 DEF OrderOf
  <2>5. at'[C(c)] = "called" /\ at'[T(t)] = "asking" /\ busyWait'[t] = <<T(t)>>
    BY <1>0, <2>1, <2>2 DEF CallCustomerMove
  <2>7. PairedTaker(t)'
    BY <2>3, <2>4, <2>5 DEF PairedTaker, Is
  <2>8. PairedCustomer(c)'
    BY <2>3, <2>5 DEF PairedCustomer, Is
  <2> QED
    BY <1>0, <2>2, <2>3, <2>7, <2>8, OtherMeetings
<1>5. ASSUME NEW t \in Taker, TakeOrder(t)
      PROVE  Paired'
  <2>1. PICK c \in Customer : TakeOrderMove(c, t)
    BY <1>0, <1>5, TakeOrderMoves
  <2>2. mode' = mode /\ OnlyMove({c}, {t}, {}, {}) /\ c \in Customer /\ t \in Taker
    BY <2>1, <1>5 DEF TakeOrderMove
  <2>3. /\ takerOf[c] = t /\ custOf[t] = c
        /\ takerOf'[c] = t /\ custOf'[t] = c
        /\ \A s \in Taker \ {t} :
              custOf'[s] = custOf[s] /\ choice'[s] = choice[s] /\ busyWait'[s] = busyWait[s]
        /\ \A d \in Customer \ {c} : takerOf'[d] = takerOf[d]
    BY <1>0, <2>1, <2>2 DEF TakeOrderMove
  <2>4. \A x : OrderOf(x)' = OrderOf(x)
    BY <2>2 DEF OrderOf
  <2>5. at'[C(c)] = "answered" /\ at'[T(t)] = "charging" /\ busyWait'[t] = <<T(t)>>
    BY <1>0, <2>1, <2>2 DEF TakeOrderMove
  <2>6. choice'[t] = OrderOf(c)
    BY <1>0, <2>1, <2>2 DEF TakeOrderMove
  <2>7. PairedTaker(t)'
    BY <2>3, <2>4, <2>5, <2>6 DEF PairedTaker, Is
  <2>8. PairedCustomer(c)'
    BY <2>3, <2>5 DEF PairedCustomer, Is
  <2> QED
    BY <1>0, <2>2, <2>3, <2>7, <2>8, OtherMeetings
<1>6. ASSUME NEW t \in Taker, GiveNumber(t)
      PROVE  Paired'
  <2>1. PICK c \in Customer : GiveNumberMove(c, t)
    BY <1>0, <1>6, GiveNumberMoves
  <2>2. mode' = mode /\ OnlyMove({c}, {t}, {}, {}) /\ c \in Customer /\ t \in Taker
    BY <2>1, <1>6 DEF GiveNumberMove
  <2>3. /\ takerOf[c] = t /\ custOf[t] = c
        /\ takerOf'[c] = t /\ custOf'[t] = c
        /\ \A s \in Taker \ {t} :
              custOf'[s] = custOf[s] /\ choice'[s] = choice[s] /\ busyWait'[s] = busyWait[s]
        /\ \A d \in Customer \ {c} : takerOf'[d] = takerOf[d]
    BY <1>0, <2>1, <2>2 DEF GiveNumberMove
  <2>4. \A x : OrderOf(x)' = OrderOf(x)
    BY <2>2 DEF OrderOf
  <2>5. at'[C(c)] = "numbered" /\ at'[T(t)] = "noting" /\ busyWait'[t] = <<>>
    BY <1>0, <2>1, <2>2 DEF GiveNumberMove
  <2>6. choice'[t] = OrderOf(c)
    BY <1>0, <2>1, <2>2 DEF GiveNumberMove
  <2>7. PairedTaker(t)'
    BY <2>3, <2>4, <2>5, <2>6 DEF PairedTaker, Is
  <2>8. PairedCustomer(c)'
    BY <2>3, <2>5 DEF PairedCustomer, Is
  <2> QED
    BY <1>0, <2>2, <2>3, <2>7, <2>8, OtherMeetings
<1> QED
  BY <1>1, <1>2, <1>3, <1>4, <1>5, <1>6, MeetingSteps

-----------------------------------------------------------------------------
(* Orders, and the customers who wait for them *)

\* Nothing happens to the orders, to those who have a number or to the waiters.
OrdersQuiet ==
    /\ UNCHANGED <<toBag, ready, bagged, serving, sitWait, ownerOf>>
    /\ \A w \in Waiter : at'[W(w)] = at[W(w)]
    /\ \A c \in Customer :
         /\ at[C(c)] \in Numbered =>
               /\ eatIn'[c] = eatIn[c]
               /\ \/ at'[C(c)] = at[C(c)]
                  \/ at[C(c)] \in {"leaving", "full"} /\ at'[C(c)] \in {"full", "gone"}
         /\ at'[C(c)] = "sitting" => at[C(c)] = "sitting"
    /\ \A t \in Taker :
         /\ at'[T(t)] = "noting" <=> at[T(t)] = "noting"
         /\ at[T(t)] = "noting" => custOf'[t] = custOf[t]

LEMMA OrderSteps ==
    ASSUME IInv, Next
    PROVE  \/ OrdersQuiet
           \/ \E c \in Customer : CheckOrder(c) \/ SitDown(c) \/ Eat(c)
           \/ \E t \in Taker : GiveNumber(t) \/ NoteOrder(t) \/ BagOrder(t)
           \/ \E w \in Waiter : TakeBag(w) \/ Serve(w) \/ FinishServing(w)
<1>0. /\ Shape /\ Paired /\ InLines /\ LoopsBounded /\ NumbersGiven /\ OncePlaced
      /\ PlacedIsGiven /\ OwnersFit /\ TableQueues /\ custOf \in [Taker -> Customer]
      /\ eatIn \in [Customer -> BOOLEAN]
  BY DEF IInv, Shape, Typed
<1>1. ASSUME NEW c \in Customer, CustomerGoes(c)
      PROVE  OrdersQuiet \/ CheckOrder(c)
  <2>1. CustomerGoesMove(c)
    BY <1>0, <1>1, CustomerGoesMoves
  <2>2. ASSUME ~CheckOrder(c)
        PROVE  OrdersQuiet
    <3>1. ready' = ready
      BY <1>1, <2>2 DEF CustomerGoes, StartCustomer, JoinLineToEnter, EnterRest,
         JoinLineToOrder, FreeTable, LeaveRestaurant, orders
    <3>2. \A d \in Customer : at[C(d)] \in Numbered => eatIn'[d] = eatIn[d]
      BY <1>0, <1>1 DEF CustomerGoes, StartCustomer, JoinLineToEnter, EnterRest,
         JoinLineToOrder, FreeTable, CheckOrder, LeaveRestaurant, Is, Numbered
    <3>3. at[C(c)] \notin {"numbered", "checking"}
      BY <1>0, <1>1, <2>2, OneCustomer
    <3>4. \A d \in Customer :
             /\ at[C(d)] \in Numbered =>
                   \/ at'[C(d)] = at[C(d)]
                   \/ at[C(d)] \in {"leaving", "full"} /\ at'[C(d)] \in {"full", "gone"}
             /\ at'[C(d)] = "sitting" => at[C(d)] = "sitting"
      BY <2>1, <3>3 DEF CustomerGoesMove, OnlyMove, From, Numbered
    <3> QED
      BY <2>1, <3>1, <3>2, <3>4 DEF CustomerGoesMove, OnlyMove, OrdersQuiet, meeting
  <2> QED
    BY <2>2
<1>2. ASSUME NEW c \in Customer, GiveOrder(c)
      PROVE  OrdersQuiet
  <2>1. PICK t \in Taker : GiveOrderMove(c, t)
    BY <1>0, <1>2, GiveOrderMoves
  <2>2. /\ UNCHANGED <<toBag, ready, bagged, serving, sitWait, ownerOf, eatIn>>
        /\ \A w \in Waiter : at'[W(w)] = at[W(w)]
    BY <2>1 DEF GiveOrderMove, OnlyMove, meeting, orders
  <2>3. \A d \in Customer :
           \/ at'[C(d)] = at[C(d)]
           \/ at[C(d)] \notin Numbered /\ at'[C(d)] # "sitting"
    BY <2>1 DEF GiveOrderMove, OnlyMove, Numbered
  <2>4. \A s \in Taker : /\ at'[T(s)] = "noting" <=> at[T(s)] = "noting"
                         /\ at[T(s)] = "noting" => custOf'[s] = custOf[s]
    BY <1>0, <2>1 DEF GiveOrderMove, OnlyMove, meeting
  <2> QED
    BY <2>2, <2>3, <2>4 DEF OrdersQuiet
<1>3. ASSUME NEW c \in Customer, Pay(c)
      PROVE  OrdersQuiet
  <2>1. PICK t \in Taker : PayMove(c, t)
    BY <1>0, <1>3, PayMoves
  <2>2. /\ UNCHANGED <<toBag, ready, bagged, serving, sitWait, ownerOf, eatIn>>
        /\ \A w \in Waiter : at'[W(w)] = at[W(w)]
    BY <2>1 DEF PayMove, OnlyMove, meeting, orders
  <2>3. \A d \in Customer :
           \/ at'[C(d)] = at[C(d)]
           \/ at[C(d)] \notin Numbered /\ at'[C(d)] # "sitting"
    BY <2>1 DEF PayMove, OnlyMove, Numbered
  <2>4. \A s \in Taker : /\ at'[T(s)] = "noting" <=> at[T(s)] = "noting"
                         /\ at[T(s)] = "noting" => custOf'[s] = custOf[s]
    BY <1>0, <2>1 DEF PayMove, OnlyMove, meeting
  <2> QED
    BY <2>2, <2>3, <2>4 DEF OrdersQuiet
<1>4. ASSUME NEW t \in Taker, TakerGoes(t)
      PROVE  OrdersQuiet
  <2>1. TakerGoesMove(t)
    BY <1>0, <1>4, TakerGoesMoves
  <2>2. /\ UNCHANGED <<toBag, ready, bagged, serving, sitWait, ownerOf, eatIn>>
        /\ \A w \in Waiter : at'[W(w)] = at[W(w)]
    BY <2>1 DEF TakerGoesMove, OnlyMove, meeting, orders
  <2>3. \A d \in Customer :
           \/ at'[C(d)] = at[C(d)]
           \/ at[C(d)] \notin Numbered /\ at'[C(d)] # "sitting"
    BY <2>1 DEF TakerGoesMove, OnlyMove, Numbered
  <2>4. \A s \in Taker : /\ at'[T(s)] = "noting" <=> at[T(s)] = "noting"
                         /\ at[T(s)] = "noting" => custOf'[s] = custOf[s]
    BY <1>0, <2>1 DEF TakerGoesMove, OnlyMove, meeting, Alone
  <2> QED
    BY <2>2, <2>3, <2>4 DEF OrdersQuiet
<1>5. ASSUME NEW t \in Taker, CallCustomer(t)
      PROVE  OrdersQuiet
  <2>1. PICK c \in Customer : CallCustomerMove(c, t)
    BY <1>0, <1>5, CallCustomerMoves
  <2>2. /\ UNCHANGED <<toBag, ready, bagged, serving, sitWait, ownerOf, eatIn>>
        /\ \A w \in Waiter : at'[W(w)] = at[W(w)]
    BY <2>1 DEF CallCustomerMove, OnlyMove, meeting, orders
  <2>3. \A d \in Customer :
           \/ at'[C(d)] = at[C(d)]
           \/ at[C(d)] \notin Numbered /\ at'[C(d)] # "sitting"
    BY <2>1 DEF CallCustomerMove, OnlyMove, Numbered
  <2>4. \A s \in Taker : /\ at'[T(s)] = "noting" <=> at[T(s)] = "noting"
                         /\ at[T(s)] = "noting" => custOf'[s] = custOf[s]
    BY <1>0, <2>1 DEF CallCustomerMove, OnlyMove, meeting
  <2> QED
    BY <2>2, <2>3, <2>4 DEF OrdersQuiet
<1>6. ASSUME NEW t \in Taker, TakeOrder(t)
      PROVE  OrdersQuiet
  <2>1. PICK c \in Customer : TakeOrderMove(c, t)
    BY <1>0, <1>6, TakeOrderMoves
  <2>2. /\ UNCHANGED <<toBag, ready, bagged, serving, sitWait, ownerOf, eatIn>>
        /\ \A w \in Waiter : at'[W(w)] = at[W(w)]
    BY <2>1 DEF TakeOrderMove, OnlyMove, meeting, orders
  <2>3. \A d \in Customer :
           \/ at'[C(d)] = at[C(d)]
           \/ at[C(d)] \notin Numbered /\ at'[C(d)] # "sitting"
    BY <2>1 DEF TakeOrderMove, OnlyMove, Numbered
  <2>4. \A s \in Taker : /\ at'[T(s)] = "noting" <=> at[T(s)] = "noting"
                         /\ at[T(s)] = "noting" => custOf'[s] = custOf[s]
    BY <1>0, <2>1 DEF TakeOrderMove, OnlyMove, meeting
  <2> QED
    BY <2>2, <2>3, <2>4 DEF OrdersQuiet
<1>7. ASSUME hireCook
      PROVE  OrdersQuiet
  <2>1. hireCookMove
    BY <1>0, <1>7, hireCookMoves
  <2>2. /\ UNCHANGED <<toBag, ready, bagged, serving, sitWait, ownerOf, eatIn>>
        /\ \A w \in Waiter : at'[W(w)] = at[W(w)]
    BY <2>1 DEF hireCookMove, OnlyMove, meeting, orders
  <2>3. \A d \in Customer :
           \/ at'[C(d)] = at[C(d)]
           \/ at[C(d)] \notin Numbered /\ at'[C(d)] # "sitting"
    BY <2>1 DEF hireCookMove, OnlyMove, Numbered
  <2>4. \A s \in Taker : /\ at'[T(s)] = "noting" <=> at[T(s)] = "noting"
                         /\ at[T(s)] = "noting" => custOf'[s] = custOf[s]
    BY <1>0, <2>1 DEF hireCookMove, OnlyMove, meeting
  <2> QED
    BY <2>2, <2>3, <2>4 DEF OrdersQuiet
<1>8. ASSUME CookIsHired
      PROVE  OrdersQuiet
  <2>1. CookIsHiredMove
    BY <1>0, <1>8, CookIsHiredMoves
  <2>2. /\ UNCHANGED <<toBag, ready, bagged, serving, sitWait, ownerOf, eatIn>>
        /\ \A w \in Waiter : at'[W(w)] = at[W(w)]
    BY <2>1 DEF CookIsHiredMove, OnlyMove, meeting, orders
  <2>3. \A d \in Customer :
           \/ at'[C(d)] = at[C(d)]
           \/ at[C(d)] \notin Numbered /\ at'[C(d)] # "sitting"
    BY <2>1 DEF CookIsHiredMove, OnlyMove, Numbered
  <2>4. \A s \in Taker : /\ at'[T(s)] = "noting" <=> at[T(s)] = "noting"
                         /\ at[T(s)] = "noting" => custOf'[s] = custOf[s]
    BY <1>0, <2>1 DEF CookIsHiredMove, OnlyMove, meeting
  <2> QED
    BY <2>2, <2>3, <2>4 DEF OrdersQuiet
<1>9. ASSUME manageCook
      PROVE  OrdersQuiet
  <2>1. manageCookMove
    BY <1>0, <1>9, manageCookMoves
  <2>2. /\ UNCHANGED <<toBag, ready, bagged, serving, sitWait, ownerOf, eatIn>>
        /\ \A w \in Waiter : at'[W(w)] = at[W(w)]
    BY <2>1 DEF manageCookMove, OnlyMove, meeting, orders
  <2>3. \A d \in Customer :
           \/ at'[C(d)] = at[C(d)]
           \/ at[C(d)] \notin Numbered /\ at'[C(d)] # "sitting"
    BY <2>1 DEF manageCookMove, OnlyMove, Numbered
  <2>4. \A s \in Taker : /\ at'[T(s)] = "noting" <=> at[T(s)] = "noting"
                         /\ at[T(s)] = "noting" => custOf'[s] = custOf[s]
    BY <1>0, <2>1 DEF manageCookMove, OnlyMove, meeting
  <2> QED
    BY <2>2, <2>3, <2>4 DEF OrdersQuiet
<1>10. ASSUME checkLineToEnterRest
      PROVE  OrdersQuiet
  <2>1. checkLineToEnterRestMove
    BY <1>0, <1>10, checkLineToEnterRestMoves
  <2>2. /\ UNCHANGED <<toBag, ready, bagged, serving, sitWait, ownerOf, eatIn>>
        /\ \A w \in Waiter : at'[W(w)] = at[W(w)]
    BY <2>1 DEF checkLineToEnterRestMove, OnlyMove, meeting, orders
  <2>3. \A d \in Customer :
           \/ at'[C(d)] = at[C(d)]
           \/ at[C(d)] \notin Numbered /\ at'[C(d)] # "sitting"
    BY <2>1 DEF checkLineToEnterRestMove, OnlyMove, Numbered
  <2>4. \A s \in Taker : /\ at'[T(s)] = "noting" <=> at[T(s)] = "noting"
                         /\ at[T(s)] = "noting" => custOf'[s] = custOf[s]
    BY <1>0, <2>1 DEF checkLineToEnterRestMove, OnlyMove, meeting
  <2> QED
    BY <2>2, <2>3, <2>4 DEF OrdersQuiet
<1>11. ASSUME NEW i \in Food, CookGoes(i)
      PROVE  OrdersQuiet
  <2>1. CookGoesMove(i)
    BY <1>0, <1>11, CookGoesMoves
  <2>2. /\ UNCHANGED <<toBag, ready, bagged, serving, sitWait, ownerOf, eatIn>>
        /\ \A w \in Waiter : at'[W(w)] = at[W(w)]
    BY <2>1 DEF CookGoesMove, OnlyMove, meeting, orders
  <2>3. \A d \in Customer :
           \/ at'[C(d)] = at[C(d)]
           \/ at[C(d)] \notin Numbered /\ at'[C(d)] # "sitting"
    BY <2>1 DEF CookGoesMove, OnlyMove, Numbered
  <2>4. \A s \in Taker : /\ at'[T(s)] = "noting" <=> at[T(s)] = "noting"
                         /\ at[T(s)] = "noting" => custOf'[s] = custOf[s]
    BY <1>0, <2>1 DEF CookGoesMove, OnlyMove, meeting
  <2> QED
    BY <2>2, <2>3, <2>4 DEF OrdersQuiet
<1>12. ASSUME NEW i \in Food, StartCook(i)
      PROVE  OrdersQuiet
  <2>1. StartCookMove(i)
    BY <1>0, <1>12, StartCookMoves
  <2>2. /\ UNCHANGED <<toBag, ready, bagged, serving, sitWait, ownerOf, eatIn>>
        /\ \A w \in Waiter : at'[W(w)] = at[W(w)]
    BY <2>1 DEF StartCookMove, OnlyMove, meeting, orders
  <2>3. \A d \in Customer :
           \/ at'[C(d)] = at[C(d)]
           \/ at[C(d)] \notin Numbered /\ at'[C(d)] # "sitting"
    BY <2>1 DEF StartCookMove, OnlyMove, Numbered
  <2>4. \A s \in Taker : /\ at'[T(s)] = "noting" <=> at[T(s)] = "noting"
                         /\ at[T(s)] = "noting" => custOf'[s] = custOf[s]
    BY <1>0, <2>1 DEF StartCookMove, OnlyMove, meeting, LoopsBounded, Is
  <2> QED
    BY <2>2, <2>3, <2>4 DEF OrdersQuiet
<1> QED
  BY <1>1, <1>2, <1>3, <1>4, <1>5, <1>6, <1>7, <1>8, <1>9, <1>10, <1>11, <1>12,
     Steps

\* A table to which nobody comes and from which nobody goes.
LEMMA TableSame ==
    ASSUME TableQueues, NEW c \in Customer, sitWait'[c] = sitWait[c],
           at'[C(c)] = "sitting" <=> at[C(c)] = "sitting",
           \A v \in Waiter :
              at[W(v)] = "serving" /\ serving[v] < Len(ownerOf) /\ Owner(serving[v]) = c =>
                 /\ at'[W(v)] = "serving" /\ serving'[v] = serving[v]
                 /\ serving[v] < Len(ownerOf') /\ ownerOf'[serving[v] + 1] = c
    PROVE  TableOf(c)'
<1>1. TableOf(c)
  BY DEF TableQueues
<1>2. CASE at[C(c)] = "sitting"
  BY <1>1, <1>2 DEF TableOf, Is
<1>3. CASE at[C(c)] # "sitting" /\ sitWait[c] = <<>>
  BY <1>3 DEF TableOf, Is
<1>4. CASE at[C(c)] # "sitting" /\ sitWait[c] # <<>>
  <2>1. PICK v \in Waiter : /\ at[W(v)] = "serving" /\ serving[v] < Len(ownerOf)
                            /\ Owner(serving[v]) = c /\ sitWait[c] = <<W(v)>>
    BY <1>1, <1>4 DEF TableOf, Is
  <2>2. Owner(serving[v])' = c
    BY <2>1 DEF Owner
  <2> QED
    BY <1>4, <2>1, <2>2 DEF TableOf, Is
<1> QED
  BY <1>2, <1>3, <1>4

LEMMA TableStep ==
    ASSUME IInv, Next
    PROVE  TableQueues'
<1>0. /\ Shape /\ Paired /\ InLines /\ LoopsBounded /\ NumbersGiven /\ OncePlaced
      /\ PlacedIsGiven /\ OwnersFit /\ TableQueues /\ sitWait \in [Customer -> Seq(Thread)]
      /\ serving \in [Waiter -> Token] /\ ownerOf \in Seq(Customer)
  BY DEF IInv, Shape, Typed
<1> SUFFICES ASSUME NEW d \in Customer
             PROVE  TableOf(d)'
  BY DEF TableQueues
<1>1. ASSUME sitWait' = sitWait, serving' = serving, ownerOf' = ownerOf,
             at'[C(d)] = "sitting" <=> at[C(d)] = "sitting",
             \A v \in Waiter : at[W(v)] = "serving" => at'[W(v)] = "serving"
      PROVE  TableOf(d)'
  BY <1>0, <1>1, TableSame DEF Owner
<1>2. CASE OrdersQuiet
  BY <1>1, <1>2 DEF OrdersQuiet, Numbered
<1>3. ASSUME NEW c \in Customer, CheckOrder(c)
      PROVE  TableOf(d)'
  <2>1. CustomerGoesMove(c) /\ at[C(c)] \in {"numbered", "checking"}
    BY <1>0, <1>3, CustomerGoesMoves, OneCustomer DEF CustomerGoes
  <2>2. at'[C(d)] = "sitting" <=> at[C(d)] = "sitting"
    BY <2>1 DEF CustomerGoesMove, OnlyMove, From
  <2> QED
    BY <1>1, <2>1, <2>2 DEF CustomerGoesMove, OnlyMove, meeting
<1>4. ASSUME NEW c \in Customer, SitDown(c)
      PROVE  TableOf(d)'
  <2>1. SitDownMove(c)
    BY <1>0, <1>4, SitDownMoves
  <2>2. /\ sitWait'[c] = <<C(c)>> /\ \A e \in Customer \ {c} : sitWait'[e] = sitWait[e]
        /\ at'[C(c)] = "sitting" /\ \A e \in Customer \ {c} : at'[C(e)] = at[C(e)]
        /\ ownerOf' = ownerOf /\ serving' = serving
        /\ \A v \in Waiter : Owner(serving[v]) # c => at'[W(v)] = at[W(v)]
    BY <1>0, <2>1 DEF SitDownMove, OnlyMove, meeting
  <2>3. CASE d = c
    BY <2>2, <2>3 DEF TableOf, Is
  <2>4. CASE d # c
    BY <1>0, <2>2, <2>4, TableSame DEF Owner
  <2> QED
    BY <2>3, <2>4
<1>5. ASSUME NEW c \in Customer, Eat(c)
      PROVE  TableOf(d)'
  <2>1. EatMove(c)
    BY <1>0, <1>5, EatMoves
  <2>2. /\ sitWait'[c] = <<>> /\ \A e \in Customer \ {c} : sitWait'[e] = sitWait[e]
        /\ at'[C(c)] = "leaving" /\ \A e \in Customer \ {c} : at'[C(e)] = at[C(e)]
        /\ ownerOf' = ownerOf /\ serving' = serving
        /\ \A v \in Waiter : Owner(serving[v]) # c => at'[W(v)] = at[W(v)]
    BY <1>0, <2>1 DEF EatMove, OnlyMove, meeting
  <2>3. CASE d = c
    BY <2>2, <2>3 DEF TableOf, Is
  <2>4. CASE d # c
    BY <1>0, <2>2, <2>4, TableSame DEF Owner
  <2> QED
    BY <2>3, <2>4
<1>6. ASSUME NEW t \in Taker, GiveNumber(t)
      PROVE  TableOf(d)'
  <2>1. PICK c \in Customer : GiveNumberMove(c, t)
    BY <1>0, <1>6, GiveNumberMoves
  <2>2. /\ ownerOf' = Append(ownerOf, c) /\ serving' = serving /\ sitWait' = sitWait
        /\ at'[C(d)] = "sitting" <=> at[C(d)] = "sitting"
        /\ \A v \in Waiter : at'[W(v)] = at[W(v)]
    BY <2>1 DEF GiveNumberMove, OnlyMove
  <2>3. /\ Len(ownerOf) \in Nat /\ Len(ownerOf') = Len(ownerOf) + 1
        /\ \A k \in 1..Len(ownerOf) : ownerOf'[k] = ownerOf[k]
    BY <1>0, <2>2
  <2>4. \A v \in Waiter : serving[v] \in Nat
    BY <1>0 DEF Token
  <2>5. \A v \in Waiter : serving[v] < Len(ownerOf) =>
           serving[v] < Len(ownerOf') /\ ownerOf'[serving[v] + 1] = ownerOf[serving[v] + 1]
    BY <2>3, <2>4
  <2> QED
    BY <1>0, <2>2, <2>5, TableSame DEF Owner
<1>7. ASSUME NEW t \in Taker, NoteOrder(t)
      PROVE  TableOf(d)'
  BY <1>0, <1>1, <1>7, NoteOrderMoves DEF NoteOrderMove, OnlyMove, meeting
<1>8. ASSUME NEW t \in Taker, BagOrder(t)
      PROVE  TableOf(d)'
  <2>1. PICK k \in Token : BagOrderMove(t, k)
    BY <1>0, <1>8, BagOrderMoves
  <2>2. /\ at'[C(d)] = "sitting" <=> at[C(d)] = "sitting"
        /\ \A v \in Waiter : at[W(v)] = "serving" => at'[W(v)] = "serving"
    BY <2>1 DEF BagOrderMove, LessLeft, BaggedNow, CalledNow, OnlyMove
  <2> QED
    BY <1>1, <2>1, <2>2 DEF BagOrderMove, meeting
<1>9. ASSUME NEW w \in Waiter, TakeBag(w)
      PROVE  TableOf(d)'
  <2>1. TakeBagMove(w)
    BY <1>0, <1>9, TakeBagMoves
  <2>2. /\ sitWait' = sitWait /\ ownerOf' = ownerOf /\ at[W(w)] = "idle"
        /\ at'[C(d)] = at[C(d)] /\ \A v \in Waiter \ {w} : at'[W(v)] = at[W(v)]
    BY <2>1 DEF TakeBagMove, OnlyMove, meeting
  <2>3. \A v \in Waiter \ {w} : serving'[v] = serving[v]
    BY <1>0, <2>1 DEF TakeBagMove
  <2> QED
    BY <1>0, <2>2, <2>3, TableSame DEF Owner
<1>10. ASSUME NEW w \in Waiter, Serve(w)
       PROVE  TableOf(d)'
  <2>1. PICK c \in Customer : ServeMove(c, w)
    BY <1>0, <1>10, ServeMoves
  <2>2. /\ sitWait'[c] = <<W(w)>> /\ \A e \in Customer \ {c} : sitWait'[e] = sitWait[e]
        /\ at'[C(c)] # "sitting" /\ \A e \in Customer \ {c} : at'[C(e)] = at[C(e)]
        /\ at'[W(w)] = "serving" /\ at[W(w)] = "carrying"
        /\ \A v \in Waiter \ {w} : at'[W(v)] = at[W(v)]
        /\ ownerOf' = ownerOf /\ serving' = serving
        /\ serving[w] < Len(ownerOf) /\ c = Owner(serving[w])
    BY <1>0, <2>1 DEF ServeMove, OnlyMove, meeting
  <2>3. CASE d = c
    <3>1. Owner(serving[w])' = c
      BY <2>2 DEF Owner
    <3> QED
      BY <2>2, <2>3, <3>1 DEF TableOf, Is
  <2>4. CASE d # c
    BY <1>0, <2>2, <2>4, TableSame DEF Owner
  <2> QED
    BY <2>3, <2>4
<1>11. ASSUME NEW w \in Waiter, FinishServing(w)
       PROVE  TableOf(d)'
  <2>1. PICK c \in Customer : FinishServingMove(c, w)
    BY <1>0, <1>11, FinishServingMoves
  <2>2. /\ sitWait'[c] = <<>> /\ \A e \in Customer \ {c} : sitWait'[e] = sitWait[e]
        /\ at'[C(c)] # "sitting" /\ \A e \in Customer \ {c} : at'[C(e)] = at[C(e)]
        /\ at[W(w)] = "thanked" /\ \A v \in Waiter \ {w} : at'[W(v)] = at[W(v)]
        /\ ownerOf' = ownerOf /\ serving' = serving
    BY <1>0, <2>1 DEF FinishServingMove, OnlyMove, meeting
  <2>3. CASE d = c
    BY <2>2, <2>3 DEF TableOf, Is
  <2>4. CASE d # c
    BY <1>0, <2>2, <2>4, TableSame DEF Owner
  <2> QED
    BY <2>3, <2>4
<1> QED
  BY <1>2, <1>3, <1>4, <1>5, <1>6, <1>7, <1>8, <1>9, <1>10, <1>11, OrderSteps

-----------------------------------------------------------------------------
(* Where orders are *)

\* One order is in one place, has been noted, and fits where its owner is.
InPlace(k) == Once(k) /\ Given(k) /\ Fits(k)

\* Who waits for an order may be called, or has eaten and goes on.
OwnerSame(c) ==
    /\ eatIn'[c] = eatIn[c] /\ sitWait'[c] = sitWait[c]
    /\ \/ at'[C(c)] = at[C(c)]
       \/ at[C(c)] = "listening" /\ at'[C(c)] = "checking"
       \/ at[C(c)] \in {"leaving", "full"} /\ at'[C(c)] \in {"full", "gone"}

\* The waiters do with order k what they did.
WaitersSame(k) ==
    \A w \in Waiter :
        /\ serving'[w] = k /\ at'[W(w)] = "carrying" <=> serving[w] = k /\ at[W(w)] = "carrying"
        /\ serving'[w] = k /\ at'[W(w)] = "serving" <=> serving[w] = k /\ at[W(w)] = "serving"
        /\ serving'[w] = k /\ at'[W(w)] = "thanked" <=> serving[w] = k /\ at[W(w)] = "thanked"

\* Order k stays where it is.
TokenSame(k) ==
    /\ toBag'[k] = toBag[k] /\ ready'[k] = ready[k]
    /\ OnList(k)' <=> OnList(k)
    /\ WaitersSame(k)
    /\ k < Len(ownerOf') <=> k < Len(ownerOf)
    /\ k < Len(ownerOf) =>
         /\ ownerOf'[k + 1] = ownerOf[k + 1]
         /\ Noting(k)' <=> Noting(k)
         /\ OwnerSame(Owner(k))

LEMMA SameToken ==
    ASSUME NEW k \in Token, InPlace(k), TokenSame(k), mode' = mode
    PROVE  InPlace(k)'
<1>1. \A w \in Waiter : Holds(w, k)' <=> Holds(w, k)
  BY DEF TokenSame, WaitersSame, Holds
<1>2. /\ InBag(k)' <=> InBag(k)
      /\ OnList(k)' <=> OnList(k)
      /\ ready'[k] = ready[k]
      /\ k < Len(ownerOf)' <=> k < Len(ownerOf)
  BY DEF TokenSame, InBag
<1>3. Once(k)'
  BY <1>1, <1>2 DEF Once, InPlace
<1>4. Given(k)'
  BY <1>1, <1>2 DEF Given, InPlace, TokenSame
<1>5. ASSUME k < Len(ownerOf)
      PROVE  Fits(k)'
  <2>1. /\ Owner(k)' = Owner(k) /\ OwnerSame(Owner(k))
        /\ Noting(k)' <=> Noting(k)
        /\ toBag'[k] = toBag[k] /\ WaitersSame(k)
    BY <1>5 DEF TokenSame, Owner
  <2> DEFINE c == Owner(k)
  <2>2. OrderOf(c)' = OrderOf(c)
    BY <2>1 DEF OrderOf
  <2> HIDE DEF c
  <2>3. /\ Owner(k) = c /\ Owner(k)' = c /\ OwnerSame(c) /\ OrderOf(Owner(k))' = OrderOf(c)
    BY <2>1, <2>2 DEF c
  <2>4. /\ InBag(k) => /\ toBag[k] \subseteq OrderOf(c)
                       /\ at[C(c)] \in {"numbered", "sitting", "listening", "checking"}
        /\ OnList(k) => eatIn[c] /\ at[C(c)] \in {"numbered", "sitting"}
        /\ ready[k] => ~eatIn[c] /\ at[C(c)] \in {"numbered", "checking"}
        /\ \A w \in Waiter : serving[w] = k =>
             /\ at[W(w)] = "carrying" => eatIn[c] /\ at[C(c)] \in {"numbered", "sitting"}
             /\ at[W(w)] = "serving" =>
                   eatIn[c] /\ at[C(c)] \in {"numbered", "fed"} /\ sitWait[c] = <<W(w)>>
             /\ at[W(w)] = "thanked" => at[C(c)] \in {"sitting", "leaving", "full", "gone"}
        /\ at[C(c)] \in {"numbered", "sitting", "listening", "checking"} =>
             \/ Noting(k) \/ InBag(k) \/ OnList(k) \/ ready[k]
             \/ \E w \in Waiter : Holds(w, k)
    BY <1>5, <2>3 DEF Fits, InPlace, Is
  <2>5. /\ InBag(k)' => /\ toBag'[k] \subseteq OrderOf(c)
                        /\ at'[C(c)] \in {"numbered", "sitting", "listening", "checking"}
        /\ OnList(k)' => eatIn'[c] /\ at'[C(c)] \in {"numbered", "sitting"}
        /\ ready'[k] => ~eatIn'[c] /\ at'[C(c)] \in {"numbered", "checking"}
    BY <1>2, <2>1, <2>3, <2>4 DEF OwnerSame
  <2>6. \A w \in Waiter : serving'[w] = k =>
             /\ at'[W(w)] = "carrying" => eatIn'[c] /\ at'[C(c)] \in {"numbered", "sitting"}
             /\ at'[W(w)] = "serving" =>
                   eatIn'[c] /\ at'[C(c)] \in {"numbered", "fed"} /\ sitWait'[c] = <<W(w)>>
             /\ at'[W(w)] = "thanked" => at'[C(c)] \in {"sitting", "leaving", "full", "gone"}
    BY <2>1, <2>3, <2>4 DEF OwnerSame, WaitersSame
  <2>7. at'[C(c)] \in {"numbered", "sitting", "listening", "checking"} =>
             \/ Noting(k)' \/ InBag(k)' \/ OnList(k)' \/ ready'[k]
             \/ \E w \in Waiter : Holds(w, k)'
    <3>1. at'[C(c)] \in {"numbered", "sitting", "listening", "checking"} =>
             at[C(c)] \in {"numbered", "sitting", "listening", "checking"}
      BY <2>3 DEF OwnerSame
    <3> QED
      BY <1>1, <1>2, <2>1, <2>4, <3>1
  <2> QED
    BY <2>3, <2>5, <2>6, <2>7 DEF Fits, Is
<1>6. ASSUME ~(k < Len(ownerOf))
      PROVE  Fits(k)'
  BY <1>2, <1>6 DEF Fits
<1> QED
  BY <1>3, <1>4, <1>5, <1>6 DEF InPlace

\* What is known of an order before a step.
LEMMA Before ==
    ASSUME IInv, NEW k \in Token
    PROVE  /\ Shape /\ Paired /\ InLines /\ NumbersGiven /\ OncePlaced /\ PlacedIsGiven
           /\ OwnersFit /\ TableQueues /\ RightSide
           /\ InPlace(k) /\ k \in Nat
           /\ k < Len(ownerOf) => Owner(k) \in Customer /\ at[C(Owner(k))] \in Numbered
BY Owners DEF IInv, OncePlaced, PlacedIsGiven, OwnersFit, InPlace, Token

LEMMA QuietPlaces ==
    ASSUME IInv, OrdersQuiet, mode' = mode, NEW k \in Token
    PROVE  InPlace(k)'
<1>1. InPlace(k) /\ (k < Len(ownerOf) => Owner(k) \in Customer /\ at[C(Owner(k))] \in Numbered)
  BY Before
<1>2. WaitersSame(k)
  BY DEF OrdersQuiet, WaitersSame
<1>3. ASSUME k < Len(ownerOf)
      PROVE  OwnerSame(Owner(k)) /\ (Noting(k)' <=> Noting(k))
  <2>1. OwnerSame(Owner(k))
    BY <1>1, <1>3 DEF OrdersQuiet, OwnerSame
  <2>2. Owner(k)' = Owner(k)
    BY DEF OrdersQuiet, Owner
  <2>3. Noting(k)' <=> Noting(k)
    BY <2>2 DEF OrdersQuiet, Noting, Is
  <2> QED
    BY <2>1, <2>3
<1>4. TokenSame(k)
  BY <1>2, <1>3 DEF TokenSame, OrdersQuiet, OnList
<1> QED
  BY <1>1, <1>4, SameToken

\* The takers note what they noted, and the numbers are whose they were.
LEMMA NotingSame ==
    ASSUME ownerOf' = ownerOf, custOf' = custOf, \A t \in Taker : at'[T(t)] = at[T(t)], NEW k
    PROVE  /\ Owner(k)' = Owner(k)
           /\ Noting(k)' <=> Noting(k)
BY DEF Owner, Noting, Is

LEMMA CheckOrderPlaces ==
    ASSUME IInv, mode' = mode, NEW c \in Customer, CheckOrder(c), NEW k \in Token
    PROVE  InPlace(k)'
<1>0. /\ Shape /\ NumbersGiven /\ RightSide /\ InPlace(k) /\ k \in Nat
      /\ (k < Len(ownerOf) => Owner(k) \in Customer /\ at[C(Owner(k))] \in Numbered)
      /\ ready \in [Token -> BOOLEAN]
  BY Before DEF Shape, Typed
<1>1. CustomerGoesMove(c) /\ at[C(c)] \in {"numbered", "checking"} /\ CustomerGoes(c)
  BY <1>0, CustomerGoesMoves, OneCustomer DEF CustomerGoes
<1>2. /\ toBag' = toBag /\ bagged' = bagged /\ serving' = serving /\ ownerOf' = ownerOf
      /\ sitWait' = sitWait /\ eatIn' = eatIn /\ custOf' = custOf
      /\ \A w \in Waiter : at'[W(w)] = at[W(w)]
      /\ \A t \in Taker : at'[T(t)] = at[T(t)]
      /\ \A d \in Customer \ {c} : at'[C(d)] = at[C(d)]
  BY <1>1 DEF CustomerGoesMove, CheckOrder, OnlyMove, meeting
<1>3. /\ WaitersSame(k)
      /\ OnList(k)' <=> OnList(k)
      /\ Owner(k)' = Owner(k)
      /\ Noting(k)' <=> Noting(k)
  BY <1>2, NotingSame DEF WaitersSame, OnList
<1>4. /\ tokenOf[c] \in Token /\ tokenOf[c] < Len(ownerOf) /\ Owner(tokenOf[c]) = c
  BY <1>0, <1>1, Owners DEF Numbered
<1>5. /\ ready'[tokenOf[c]] = FALSE
      /\ \A j \in Token \ {tokenOf[c]} : ready'[j] = ready[j]
  BY <1>0, <1>4 DEF CheckOrder
<1>6. CASE k # tokenOf[c]
  <2>1. ready'[k] = ready[k]
    BY <1>5, <1>6
  <2>2. ASSUME k < Len(ownerOf)
        PROVE  OwnerSame(Owner(k))
    <3>1. Owner(k) # c /\ Owner(k) \in Customer
      <4>1. tokenOf[c] \in Nat
        BY <1>4 DEF Token
      <4> QED
        BY <1>0, <1>4, <1>6, <2>2, <4>1, Owners
    <3> QED
      BY <1>2, <3>1 DEF OwnerSame
  <2>3. TokenSame(k)
    BY <1>2, <1>3, <2>1, <2>2 DEF TokenSame
  <2> QED
    BY <1>0, <2>3, SameToken
<1>7. CASE k = tokenOf[c]
  <2>1. /\ k < Len(ownerOf) /\ Owner(k) = c /\ Owner(k)' = c
        /\ ready'[k] = FALSE /\ InBag(k)' = InBag(k)
        /\ at'[C(c)] = IF ready[k] THEN "full" ELSE "listening"
    <3>1. Go(C(c), IF ready[k] THEN "full" ELSE "listening")
      BY <1>7 DEF CheckOrder
    <3>2. at'[C(c)] = IF ready[k] THEN "full" ELSE "listening"
      BY <3>1, <1>0, GoCustomer DEF CustomerPlace
    <3> QED
      BY <1>2, <1>3, <1>4, <1>5, <1>7, <3>2 DEF InBag
  <2>2. \A w \in Waiter : Holds(w, k)' <=> Holds(w, k)
    BY <1>2 DEF Holds
  <2>3. Once(k)'
    BY <1>0, <1>3, <2>1, <2>2 DEF Once, InPlace
  <2>4. Given(k)'
    BY <1>0, <1>2, <1>3, <2>1, <2>2 DEF Given, InPlace
  <2>5. ~eatIn[c]
    BY <1>0, <1>1, OneCustomer DEF CheckOrder, Is, RightSide
  <2>6. Fits(k)'
    <3>1. CASE ready[k]
      <4>1. ~InBag(k) /\ ~OnList(k) /\ \A w \in Waiter : ~Holds(w, k)
        BY <1>0, <3>1 DEF InPlace, Once
      <4> QED
        BY <1>2, <1>3, <2>1, <2>2, <3>1, <4>1 DEF Fits, Holds, Is
    <3>2. CASE ~ready[k]
      <4>1. /\ ~OnList(k)
            /\ \A w \in Waiter : ~Holds(w, k)
            /\ InBag(k) => toBag[k] \subseteq OrderOf(c)
            /\ Noting(k) \/ InBag(k)
        BY <1>0, <1>1, <2>1, <2>5, <3>2 DEF InPlace, Fits, Holds, Is
      <4>2. OrderOf(Owner(k))' = OrderOf(c)
        BY <2>1 DEF OrderOf
      <4>3. toBag'[k] = toBag[k] /\ at'[C(c)] = "listening"
        BY <1>2, <2>1, <3>2
      <4> QED
        BY <1>3, <2>1, <2>2, <4>1, <4>2, <4>3 DEF Fits, Holds, Is
    <3> QED
      BY <3>1, <3>2
  <2> QED
    BY <2>3, <2>4, <2>6 DEF InPlace
<1> QED
  BY <1>6, <1>7

\* The numbers of others.
LEMMA OtherOwner ==
    ASSUME Shape, NumbersGiven, NEW j \in Token, NEW k \in Token, j # k,
           j < Len(ownerOf), k < Len(ownerOf)
    PROVE  Owner(k) \in Customer /\ Owner(k) # Owner(j)
<1>1. j \in Nat /\ k \in Nat
  BY DEF Token
<1> QED
  BY <1>1, Owners

LEMMA SitDownPlaces ==
    ASSUME IInv, mode' = mode, NEW c \in Customer, SitDown(c), NEW k \in Token
    PROVE  InPlace(k)'
<1>0. /\ Shape /\ NumbersGiven /\ RightSide /\ InPlace(k) /\ k \in Nat /\ TableQueues
      /\ sitWait \in [Customer -> Seq(Thread)]
  BY Before DEF Shape, Typed
<1>1. SitDownMove(c)
  BY <1>0, SitDownMoves
<1>2. /\ toBag' = toBag /\ ready' = ready /\ bagged' = bagged /\ serving' = serving
      /\ ownerOf' = ownerOf /\ eatIn' = eatIn /\ custOf' = custOf
      /\ at[C(c)] = "numbered" /\ at'[C(c)] = "sitting" /\ eatIn[c]
      /\ \A t \in Taker : at'[T(t)] = at[T(t)]
      /\ \A d \in Customer \ {c} : at'[C(d)] = at[C(d)] /\ sitWait'[d] = sitWait[d]
  BY <1>0, <1>1 DEF SitDownMove, OnlyMove, meeting, orders
<1>3. /\ OnList(k)' <=> OnList(k)
      /\ Owner(k)' = Owner(k)
      /\ Noting(k)' <=> Noting(k)
  BY <1>2, NotingSame DEF OnList
<1>4. /\ tokenOf[c] \in Token /\ tokenOf[c] < Len(ownerOf) /\ Owner(tokenOf[c]) = c
  BY <1>0, <1>2, Owners DEF Numbered
<1>5. \A w \in Waiter : \/ at'[W(w)] = at[W(w)] /\ sitWait[c] # <<W(w)>>
                        \/ /\ at[W(w)] = "serving" /\ at'[W(w)] = "thanked"
                           /\ serving[w] < Len(ownerOf) /\ Owner(serving[w]) = c
  <2>1. CASE sitWait[c] = <<>>
    BY <1>1, <2>1 DEF SitDownMove, OnlyMove
  <2>2. CASE sitWait[c] # <<>>
    <3>1. PICK w \in Waiter :
                 /\ at[W(w)] = "serving" /\ at'[W(w)] = "thanked"
                 /\ serving[w] < Len(ownerOf) /\ Owner(serving[w]) = c
                 /\ OnlyMove({c}, {}, {}, {w}) /\ sitWait[c] = <<W(w)>>
      BY <1>1, <2>2 DEF SitDownMove
    <3>2. \A v \in Waiter \ {w} : <<W(v)>> # <<W(w)>>
      BY Names
    <3> QED
      BY <3>1, <3>2 DEF OnlyMove
  <2> QED
    BY <2>1, <2>2
<1>6. \A w \in Waiter : Holds(w, k)' <=> Holds(w, k)
  BY <1>2, <1>5 DEF Holds
<1>7. CASE k # tokenOf[c]
  <2>1. WaitersSame(k)
    <3>1. \A w \in Waiter : serving[w] = k => at'[W(w)] = at[W(w)]
      BY <1>0, <1>4, <1>5, <1>7, OtherOwner
    <3> QED
      BY <1>2, <3>1 DEF WaitersSame
  <2>2. ASSUME k < Len(ownerOf)
        PROVE  OwnerSame(Owner(k))
    BY <1>0, <1>2, <1>4, <1>7, <2>2, OtherOwner DEF OwnerSame
  <2>3. TokenSame(k)
    BY <1>2, <1>3, <2>1, <2>2 DEF TokenSame
  <2> QED
    BY <1>0, <2>3, SameToken
<1>8. CASE k = tokenOf[c]
  <2>1. /\ k < Len(ownerOf) /\ Owner(k) = c /\ Owner(k)' = c
        /\ InBag(k)' <=> InBag(k)
    BY <1>2, <1>3, <1>4, <1>8 DEF InBag
  <2>2. Once(k)'
    BY <1>0, <1>2, <1>3, <1>6, <2>1 DEF Once, InPlace
  <2>3. Given(k)'
    BY <1>0, <1>2, <1>3, <1>6, <2>1 DEF Given, InPlace
  <2>4. Fits(k)'
    <3>1. /\ InBag(k) => toBag[k] \subseteq OrderOf(c)
          /\ ~ready[k]
          /\ \A w \in Waiter : serving[w] = k =>
               /\ at[W(w)] = "serving" => sitWait[c] = <<W(w)>>
               /\ at[W(w)] # "thanked"
          /\ Noting(k) \/ InBag(k) \/ OnList(k) \/ \E w \in Waiter : Holds(w, k)
      BY <1>0, <1>2, <2>1 DEF InPlace, Fits, Is
    <3>2. \A w \in Waiter : serving[w] = k => at'[W(w)] # "serving"
      BY <1>5, <3>1
    <3>3. OrderOf(Owner(k))' = OrderOf(c)
      BY <2>1 DEF OrderOf
    <3> QED
      BY <1>2, <1>3, <1>6, <2>1, <3>1, <3>2, <3>3 DEF Fits, Is
  <2> QED
    BY <2>2, <2>3, <2>4 DEF InPlace
<1> QED
  BY <1>7, <1>8

LEMMA EatPlaces ==
    ASSUME IInv, mode' = mode, NEW c \in Customer, Eat(c), NEW k \in Token
    PROVE  InPlace(k)'
<1>0. /\ Shape /\ NumbersGiven /\ RightSide /\ InPlace(k) /\ k \in Nat /\ TableQueues
      /\ sitWait \in [Customer -> Seq(Thread)]
  BY Before DEF Shape, Typed
<1>1. EatMove(c)
  BY <1>0, EatMoves
<1>2. /\ toBag' = toBag /\ ready' = ready /\ bagged' = bagged /\ serving' = serving
      /\ ownerOf' = ownerOf /\ eatIn' = eatIn /\ custOf' = custOf
      /\ at[C(c)] = "fed" /\ at'[C(c)] = "leaving"
      /\ \A t \in Taker : at'[T(t)] = at[T(t)]
      /\ \A d \in Customer \ {c} : at'[C(d)] = at[C(d)] /\ sitWait'[d] = sitWait[d]
  BY <1>0, <1>1 DEF EatMove, OnlyMove, meeting, orders
<1>3. /\ OnList(k)' <=> OnList(k)
      /\ Owner(k)' = Owner(k)
      /\ Noting(k)' <=> Noting(k)
  BY <1>2, NotingSame DEF OnList
<1>4. /\ tokenOf[c] \in Token /\ tokenOf[c] < Len(ownerOf) /\ Owner(tokenOf[c]) = c
  BY <1>0, <1>2, Owners DEF Numbered
<1>5. \A w \in Waiter : \/ at'[W(w)] = at[W(w)] /\ sitWait[c] # <<W(w)>>
                        \/ /\ at[W(w)] = "serving" /\ at'[W(w)] = "thanked"
                           /\ serving[w] < Len(ownerOf) /\ Owner(serving[w]) = c
  <2>1. CASE sitWait[c] = <<>>
    BY <1>1, <2>1 DEF EatMove, OnlyMove
  <2>2. CASE sitWait[c] # <<>>
    <3>1. PICK w \in Waiter :
                 /\ at[W(w)] = "serving" /\ at'[W(w)] = "thanked"
                 /\ serving[w] < Len(ownerOf) /\ Owner(serving[w]) = c
                 /\ OnlyMove({c}, {}, {}, {w}) /\ sitWait[c] = <<W(w)>>
      BY <1>1, <2>2 DEF EatMove
    <3>2. \A v \in Waiter \ {w} : <<W(v)>> # <<W(w)>>
      BY Names
    <3> QED
      BY <3>1, <3>2 DEF OnlyMove
  <2> QED
    BY <2>1, <2>2
<1>6. \A w \in Waiter : Holds(w, k)' <=> Holds(w, k)
  BY <1>2, <1>5 DEF Holds
<1>7. CASE k # tokenOf[c]
  <2>1. WaitersSame(k)
    <3>1. \A w \in Waiter : serving[w] = k => at'[W(w)] = at[W(w)]
      BY <1>0, <1>4, <1>5, <1>7, OtherOwner
    <3> QED
      BY <1>2, <3>1 DEF WaitersSame
  <2>2. ASSUME k < Len(ownerOf)
        PROVE  OwnerSame(Owner(k))
    BY <1>0, <1>2, <1>4, <1>7, <2>2, OtherOwner DEF OwnerSame
  <2>3. TokenSame(k)
    BY <1>2, <1>3, <2>1, <2>2 DEF TokenSame
  <2> QED
    BY <1>0, <2>3, SameToken
<1>8. CASE k = tokenOf[c]
  <2>1. /\ k < Len(ownerOf) /\ Owner(k) = c /\ Owner(k)' = c
        /\ InBag(k)' <=> InBag(k)
    BY <1>2, <1>3, <1>4, <1>8 DEF InBag
  <2>2. Once(k)'
    BY <1>0, <1>2, <1>3, <1>6, <2>1 DEF Once, InPlace
  <2>3. Given(k)'
    BY <1>0, <1>2, <1>3, <1>6, <2>1 DEF Given, InPlace
  <2>4. Fits(k)'
    <3>1. /\ ~InBag(k) /\ ~OnList(k) /\ ~ready[k]
          /\ \A w \in Waiter : serving[w] = k =>
               /\ at[W(w)] = "serving" => sitWait[c] = <<W(w)>>
               /\ at[W(w)] # "thanked" /\ at[W(w)] # "carrying"
      BY <1>0, <1>2, <2>1 DEF InPlace, Fits, Is
    <3>2. \A w \in Waiter : serving[w] = k => at'[W(w)] # "serving" /\ at'[W(w)] # "carrying"
      BY <1>5, <3>1
    <3> QED
      BY <1>2, <1>3, <2>1, <3>1, <3>2 DEF Fits, Is
  <2> QED
    BY <2>2, <2>3, <2>4 DEF InPlace
<1> QED
  BY <1>7, <1>8

LEMMA GiveNumberPlaces ==
    ASSUME IInv, mode' = mode, NEW t \in Taker, GiveNumber(t), NEW k \in Token
    PROVE  InPlace(k)'
<1>0. /\ Shape /\ Paired /\ NumbersGiven /\ InPlace(k) /\ k \in Nat /\ ownerOf \in Seq(Customer)
      /\ (k < Len(ownerOf) => Owner(k) \in Customer /\ at[C(Owner(k))] \in Numbered)
  BY Before DEF Shape, Typed
<1>1. PICK c \in Customer : GiveNumberMove(c, t)
  BY <1>0, GiveNumberMoves
<1>2. /\ toBag' = toBag /\ ready' = ready /\ bagged' = bagged /\ serving' = serving
      /\ sitWait' = sitWait /\ eatIn' = eatIn /\ custOf' = custOf /\ c = custOf[t]
      /\ at[C(c)] = "paying" /\ at'[C(c)] = "numbered"
      /\ at[T(t)] = "paid" /\ at'[T(t)] = "noting"
      /\ \A w \in Waiter : at'[W(w)] = at[W(w)]
      /\ \A s \in Taker \ {t} : at'[T(s)] = at[T(s)]
      /\ \A d \in Customer \ {c} : at'[C(d)] = at[C(d)]
      /\ ownerOf' = Append(ownerOf, c)
  BY <1>1 DEF GiveNumberMove, OnlyMove, orders
<1>3. /\ Len(ownerOf) \in Nat /\ Len(ownerOf') = Len(ownerOf) + 1
      /\ ownerOf'[Len(ownerOf) + 1] = c
      /\ \A i \in 1..Len(ownerOf) : ownerOf'[i] = ownerOf[i]
  BY <1>0, <1>2
<1>4. /\ WaitersSame(k)
      /\ OnList(k)' <=> OnList(k)
      /\ InBag(k)' <=> InBag(k)
      /\ \A w \in Waiter : Holds(w, k)' <=> Holds(w, k)
  BY <1>2 DEF WaitersSame, OnList, Holds, InBag
<1>5. CASE k # Len(ownerOf)
  <2>1. k < Len(ownerOf') <=> k < Len(ownerOf)
    BY <1>0, <1>3, <1>5
  <2>2. ASSUME k < Len(ownerOf)
        PROVE  /\ ownerOf'[k + 1] = ownerOf[k + 1]
               /\ Noting(k)' <=> Noting(k)
               /\ OwnerSame(Owner(k))
    <3>1. ownerOf'[k + 1] = ownerOf[k + 1]
      BY <1>0, <1>3, <2>2
    <3>2. Owner(k) \in Customer /\ Owner(k) # c /\ Owner(k)' = Owner(k)
      BY <1>0, <1>2, <2>2, <3>1 DEF Owner, Numbered
    <3>3. OwnerSame(Owner(k))
      BY <1>2, <3>2 DEF OwnerSame
    <3>4. Noting(k)' <=> Noting(k)
      BY <1>2, <3>2 DEF Noting, Is
    <3> QED
      BY <3>1, <3>3, <3>4
  <2>3. TokenSame(k)
    BY <1>2, <1>4, <2>1, <2>2 DEF TokenSame
  <2> QED
    BY <1>0, <2>3, SameToken
<1>6. CASE k = Len(ownerOf)
  <2>1. k < Len(ownerOf') /\ Owner(k)' = c /\ ~(k < Len(ownerOf))
    BY <1>3, <1>6 DEF Owner
  <2>2. /\ ~InBag(k) /\ ~OnList(k) /\ ~ready[k]
        /\ \A w \in Waiter : ~Holds(w, k)
    BY <1>0, <2>1 DEF InPlace, Given
  <2>3. Once(k)' /\ Given(k)'
    BY <1>2, <1>4, <2>2 DEF Once, Given
  <2>4. Noting(k)'
    BY <1>2, <2>1 DEF Noting, Is
  <2>5. Fits(k)'
    BY <1>2, <1>4, <2>1, <2>2, <2>4 DEF Fits, Is, Holds
  <2> QED
    BY <2>3, <2>5 DEF InPlace
<1> QED
  BY <1>5, <1>6

LEMMA NoteOrderPlaces ==
    ASSUME IInv, mode' = mode, NEW t \in Taker, NoteOrder(t), NEW k \in Token
    PROVE  InPlace(k)'
<1> DEFINE c == custOf[t]
<1>0. /\ Shape /\ Paired /\ NumbersGiven /\ InPlace(k) /\ k \in Nat
      /\ (k < Len(ownerOf) => Owner(k) \in Customer /\ at[C(Owner(k))] \in Numbered)
      /\ toBag \in [Token -> SUBSET Nat] /\ c \in Customer
  BY Before DEF Shape, Typed
<1>1. NoteOrderMove(t)
  BY <1>0, NoteOrderMoves
<1>2. /\ ready' = ready /\ bagged' = bagged /\ serving' = serving /\ ownerOf' = ownerOf
      /\ sitWait' = sitWait /\ eatIn' = eatIn /\ custOf' = custOf
      /\ at[T(t)] = "noting" /\ at'[T(t)] # "noting"
      /\ \A w \in Waiter : at'[W(w)] = at[W(w)]
      /\ \A s \in Taker \ {t} : at'[T(s)] = at[T(s)]
      /\ \A d \in Customer : at'[C(d)] = at[C(d)]
  BY <1>1 DEF NoteOrderMove, OnlyMove, meeting
<1>3. at[C(c)] = "numbered" /\ takerOf[c] = t /\ choice[t] = OrderOf(c)
  BY <1>0, <1>2 DEF Paired, PairedTaker, Is
<1>4. /\ tokenOf[c] \in Token /\ tokenOf[c] < Len(ownerOf) /\ Owner(tokenOf[c]) = c
  BY <1>0, <1>3, Owners DEF Numbered
<1>5. /\ toBag'[tokenOf[c]] = OrderOf(c)
      /\ \A j \in Token \ {tokenOf[c]} : toBag'[j] = toBag[j]
  <2>1. toBag' = [toBag EXCEPT ![tokenOf[c]] = choice[t]]
    BY DEF NoteOrder
  <2> QED
    BY <1>0, <1>3, <1>4, <2>1
<1>6. /\ WaitersSame(k)
      /\ OnList(k)' <=> OnList(k)
      /\ Owner(k)' = Owner(k)
      /\ \A w \in Waiter : Holds(w, k)' <=> Holds(w, k)
  BY <1>2 DEF WaitersSame, OnList, Holds, Owner
<1>7. \A s \in Taker \ {t} : at[T(s)] = "noting" => custOf[s] # c
  BY <1>0, <1>3 DEF Paired, PairedTaker, Is
<1> HIDE DEF c
<1>8. CASE k # tokenOf[c]
  <2>1. ASSUME k < Len(ownerOf)
        PROVE  OwnerSame(Owner(k)) /\ (Noting(k)' <=> Noting(k))
    <3>1. Owner(k) \in Customer /\ Owner(k) # c
      BY <1>0, <1>4, <1>8, <2>1, OtherOwner
    <3>2. OwnerSame(Owner(k))
      BY <1>2, <3>1 DEF OwnerSame
    <3>3. Noting(k)' <=> Noting(k)
      BY <1>2, <1>6, <3>1 DEF Noting, Is, c
    <3> QED
      BY <3>2, <3>3
  <2>2. TokenSame(k)
    BY <1>2, <1>5, <1>6, <1>8, <2>1 DEF TokenSame, Owner
  <2> QED
    BY <1>0, <2>2, SameToken
<1>9. CASE k = tokenOf[c]
  <2>1. k < Len(ownerOf) /\ Owner(k) = c /\ Owner(k)' = c /\ toBag'[k] = OrderOf(c)
    BY <1>4, <1>5, <1>6, <1>9
  <2>2. Noting(k)
    BY <1>2, <2>1 DEF Noting, Is, c
  <2>3. /\ ~InBag(k) /\ ~OnList(k) /\ ~ready[k]
        /\ \A w \in Waiter : ~Holds(w, k)
    BY <1>0, <2>2 DEF InPlace, Given
  <2>4. InBag(k)'
    BY <1>0, <2>1, Orders DEF InBag, c
  <2>5. ~Noting(k)'
    BY <1>2, <1>7, <2>1 DEF Noting, Is, c
  <2>6. Once(k)' /\ Given(k)'
    BY <1>2, <1>6, <2>1, <2>3, <2>5 DEF Once, Given
  <2>7. OrderOf(Owner(k))' = OrderOf(c)
    BY <2>1 DEF OrderOf
  <2>8. Fits(k)'
    BY <1>0, <1>2, <1>3, <1>6, <2>1, <2>3, <2>4, <2>7 DEF Fits, Is, Holds, c
  <2> QED
    BY <2>6, <2>8 DEF InPlace
<1> QED
  BY <1>8, <1>9

LEMMA BagOrderPlaces ==
    ASSUME IInv, mode' = mode, NEW t \in Taker, BagOrder(t), NEW k \in Token
    PROVE  InPlace(k)'
<1>0. /\ Shape /\ NumbersGiven /\ InPlace(k) /\ k \in Nat /\ RightSide
      /\ (k < Len(ownerOf) => Owner(k) \in Customer /\ at[C(Owner(k))] \in Numbered)
      /\ toBag \in [Token -> SUBSET Nat] /\ ready \in [Token -> BOOLEAN]
      /\ bagged \in Seq(Token) /\ Range(bagged) \subseteq Token
  <2>1. bagged \in Seq(Token)
    BY DEF IInv, Shape, Typed
  <2>2. Range(bagged) \subseteq Token
    BY <2>1, RangeOfSeq
  <2> QED
    BY <2>1, <2>2, Before DEF Shape, Typed
<1>1. PICK j \in Token : BagOrderMove(t, j)
  BY <1>0, BagOrderMoves
<1>2. /\ serving' = serving /\ ownerOf' = ownerOf
      /\ sitWait' = sitWait /\ eatIn' = eatIn /\ custOf' = custOf
      /\ \A s \in Taker : at'[T(s)] = at[T(s)]
      /\ \A w \in Waiter : \/ at'[W(w)] = at[W(w)]
                           \/ at[W(w)] = "break" /\ at'[W(w)] = "idle"
      /\ \A d \in Customer : \/ at'[C(d)] = at[C(d)]
                             \/ at[C(d)] = "listening" /\ at'[C(d)] = "checking"
  BY <1>1 DEF BagOrderMove, LessLeft, BaggedNow, CalledNow, OnlyMove, meeting
<1>3. /\ WaitersSame(k)
      /\ Owner(k)' = Owner(k)
      /\ Noting(k)' <=> Noting(k)
      /\ \A w \in Waiter : Holds(w, k)' <=> Holds(w, k)
  BY <1>2, NotingSame DEF WaitersSame, Holds
<1>4. k < Len(ownerOf) => OwnerSame(Owner(k))
  BY <1>0, <1>2 DEF OwnerSame
<1>5. CASE k # j
  <2>1. toBag'[k] = toBag[k] /\ ready'[k] = ready[k]
    BY <1>0, <1>1, <1>5 DEF BagOrderMove, LessLeft, BaggedNow, CalledNow
  <2>2. OnList(k)' <=> OnList(k)
    <3>1. Range(Append(bagged, j)) = Range(bagged) \cup {j}
      BY <1>0, AppendQueue
    <3>2. bagged' = bagged \/ bagged' = Append(bagged, j)
      BY <1>1 DEF BagOrderMove, LessLeft, BaggedNow, CalledNow
    <3> QED
      BY <1>5, <3>1, <3>2 DEF OnList
  <2>3. TokenSame(k)
    BY <1>2, <1>3, <1>4, <2>1, <2>2 DEF TokenSame, Owner
  <2> QED
    BY <1>0, <2>3, SameToken
<1>6. CASE k = j
  <2> DEFINE c == Owner(k)
  <2>1. /\ InBag(k) /\ k < Len(ownerOf) /\ ~Noting(k) /\ ~OnList(k) /\ ~ready[k]
        /\ \A w \in Waiter : ~Holds(w, k)
        /\ toBag[k] \subseteq OrderOf(c)
        /\ at[C(c)] \in {"numbered", "sitting", "listening", "checking"}
    BY <1>0, <1>1, <1>6 DEF InPlace, Given, Once, Fits, BagOrderMove
  <2>2. OrderOf(Owner(k))' = OrderOf(c) /\ c \in Customer
    BY <1>0, <1>3, <2>1 DEF OrderOf
  <2> HIDE DEF c
  <2>3. Owner(k)' = c /\ Owner(k) = c
    BY <1>3 DEF c
  <2>4. CASE LessLeft(k)
    <3>1. /\ toBag'[k] # {} /\ toBag'[k] \subseteq toBag[k]
          /\ bagged' = bagged /\ ready' = ready /\ at' = at
      BY <2>4 DEF LessLeft
    <3>2. InBag(k)' /\ ~OnList(k)'
      BY <2>1, <3>1 DEF InBag, OnList
    <3>3. Once(k)' /\ Given(k)'
      BY <1>2, <1>3, <2>1, <3>1, <3>2 DEF Once, Given
    <3>4. Fits(k)'
      BY <1>3, <2>1, <2>2, <2>3, <3>1, <3>2 DEF Fits, Is, Holds
    <3> QED
      BY <3>3, <3>4 DEF InPlace
  <2>5. CASE BaggedNow(k)
    <3>1. /\ toBag'[k] = {} /\ ready' = ready /\ eatIn[c] /\ at'[C(c)] = at[C(c)]
      BY <1>0, <2>2, <2>3, <2>5 DEF BaggedNow, OnlyMove
    <3>2. bagged' = Append(bagged, k)
      BY <2>5 DEF BaggedNow
    <3>3. Range(Append(bagged, k)) = Range(bagged) \cup {k}
      BY <1>0, AppendQueue
    <3>4. OnList(k)' /\ ~InBag(k)'
      BY <3>1, <3>2, <3>3 DEF OnList, InBag
    <3>5. Once(k)' /\ Given(k)'
      BY <1>2, <1>3, <2>1, <3>1, <3>4 DEF Once, Given
    <3>6. at[C(c)] \in {"numbered", "sitting"}
      BY <1>0, <2>1, <2>2, <3>1 DEF RightSide
    <3>7. Fits(k)'
      BY <1>2, <1>3, <2>1, <2>3, <3>1, <3>4, <3>6 DEF Fits, Is, Holds
    <3> QED
      BY <3>5, <3>7 DEF InPlace
  <2>6. CASE CalledNow(k)
    <3>1. /\ toBag'[k] = {} /\ ready'[k] /\ ~eatIn[c] /\ bagged' = bagged
          /\ at'[C(c)] = IF at[C(c)] = "listening" THEN "checking" ELSE at[C(c)]
      BY <1>0, <2>2, <2>3, <2>6 DEF CalledNow
    <3>2. ~OnList(k)' /\ ~InBag(k)'
      BY <2>1, <3>1 DEF OnList, InBag
    <3>3. Once(k)' /\ Given(k)'
      BY <1>2, <1>3, <2>1, <3>1, <3>2 DEF Once, Given
    <3>4. at'[C(c)] \in {"numbered", "checking"}
      BY <1>0, <2>1, <2>2, <3>1 DEF RightSide
    <3>5. Fits(k)'
      BY <1>2, <1>3, <2>1, <2>3, <3>1, <3>2, <3>4 DEF Fits, Is, Holds
    <3> QED
      BY <3>3, <3>5 DEF InPlace
  <2> QED
    BY <1>1, <1>6, <2>4, <2>5, <2>6 DEF BagOrderMove
<1> QED
  BY <1>5, <1>6

LEMMA TakeBagPlaces ==
    ASSUME IInv, mode' = mode, NEW w \in Waiter, TakeBag(w), NEW k \in Token
    PROVE  InPlace(k)'
<1>0. /\ Shape /\ NumbersGiven /\ OncePlaced /\ InPlace(k) /\ k \in Nat
      /\ (k < Len(ownerOf) => Owner(k) \in Customer /\ at[C(Owner(k))] \in Numbered)
      /\ bagged \in Seq(Token) /\ serving \in [Waiter -> Token]
  BY Before DEF Shape, Typed
<1>1. TakeBagMove(w)
  BY <1>0, TakeBagMoves
<1>2. /\ toBag' = toBag /\ ready' = ready /\ ownerOf' = ownerOf
      /\ sitWait' = sitWait /\ eatIn' = eatIn /\ custOf' = custOf
      /\ at[W(w)] = "idle"
      /\ \A s \in Taker : at'[T(s)] = at[T(s)]
      /\ \A v \in Waiter \ {w} : at'[W(v)] = at[W(v)]
      /\ \A d \in Customer : at'[C(d)] = at[C(d)]
  BY <1>1 DEF TakeBagMove, OnlyMove, meeting
<1>3. /\ Owner(k)' = Owner(k)
      /\ Noting(k)' <=> Noting(k)
      /\ InBag(k)' <=> InBag(k)
      /\ k < Len(ownerOf) => OwnerSame(Owner(k))
  BY <1>0, <1>2, NotingSame DEF InBag, OwnerSame
<1>4. CASE at'[W(w)] = "break" /\ bagged' = bagged /\ serving' = serving
  <2>1. TokenSame(k)
    BY <1>2, <1>3, <1>4 DEF TokenSame, OnList, WaitersSame, Owner
  <2> QED
    BY <1>0, <2>1, SameToken
<1>5. CASE /\ at'[W(w)] = "carrying" /\ bagged # <<>>
           /\ serving' = [serving EXCEPT ![w] = Last(bagged)] /\ bagged' = Front(bagged)
  <2> DEFINE j == Last(bagged)
  <2>1. /\ j \in Token /\ j \in Range(bagged) /\ Range(Front(bagged)) \subseteq Range(bagged)
        /\ \A x \in Range(bagged) : x # j => x \in Range(Front(bagged))
        /\ j \notin Range(Front(bagged))
    BY <1>0, <1>5, FrontQueue DEF OncePlaced
  <2>2. /\ bagged' = Front(bagged) /\ at'[W(w)] = "carrying"
        /\ serving'[w] = j /\ \A v \in Waiter \ {w} : serving'[v] = serving[v]
    BY <1>0, <1>5, <2>1
  <2> HIDE DEF j
  <2>3. CASE k # j
    <3>1. OnList(k)' <=> OnList(k)
      BY <2>1, <2>2, <2>3 DEF OnList
    <3>2. WaitersSame(k)
      BY <1>2, <2>2, <2>3 DEF WaitersSame
    <3>3. TokenSame(k)
      BY <1>2, <1>3, <3>1, <3>2 DEF TokenSame, Owner
    <3> QED
      BY <1>0, <3>3, SameToken
  <2>4. CASE k = j
    <3>1. OnList(k) /\ ~OnList(k)'
      BY <2>1, <2>2, <2>4 DEF OnList
    <3>2. /\ ~InBag(k) /\ ~ready[k] /\ k < Len(ownerOf) /\ ~Noting(k)
          /\ eatIn[Owner(k)] /\ at[C(Owner(k))] \in {"numbered", "sitting"}
          /\ \A v \in Waiter : ~Holds(v, k)
      BY <1>0, <3>1 DEF InPlace, Once, Given, Fits
    <3>3. Holds(w, k)' /\ \A v \in Waiter \ {w} : ~Holds(v, k)'
      BY <1>2, <2>2, <2>4, <3>2 DEF Holds
    <3>4. Once(k)' /\ Given(k)'
      BY <1>2, <1>3, <3>1, <3>2, <3>3 DEF Once, Given
    <3>5. \A v \in Waiter : serving'[v] = k =>
             at'[W(v)] # "serving" /\ at'[W(v)] # "thanked"
      BY <2>2, <3>3 DEF Holds
    <3>6. /\ at'[C(Owner(k))] = at[C(Owner(k))]
          /\ eatIn' = eatIn
      BY <1>0, <1>2, <3>2
    <3>7. Fits(k)'
      BY <1>2, <1>3, <3>1, <3>2, <3>3, <3>5, <3>6 DEF Fits, Is
    <3> QED
      BY <3>4, <3>7 DEF InPlace
  <2> QED
    BY <2>3, <2>4
<1> QED
  BY <1>1, <1>4, <1>5 DEF TakeBagMove

LEMMA ServePlaces ==
    ASSUME IInv, mode' = mode, NEW w \in Waiter, Serve(w), NEW k \in Token
    PROVE  InPlace(k)'
<1>0. /\ Shape /\ NumbersGiven /\ OncePlaced /\ PlacedIsGiven /\ OwnersFit /\ TableQueues
      /\ InPlace(k) /\ k \in Nat /\ sitWait \in [Customer -> Seq(Thread)]
      /\ (k < Len(ownerOf) => Owner(k) \in Customer /\ at[C(Owner(k))] \in Numbered)
  BY Before DEF Shape, Typed
<1>1. PICK c \in Customer : ServeMove(c, w)
  BY <1>0, ServeMoves
<1>2. /\ toBag' = toBag /\ ready' = ready /\ bagged' = bagged /\ serving' = serving
      /\ ownerOf' = ownerOf /\ eatIn' = eatIn /\ custOf' = custOf
      /\ at[W(w)] = "carrying" /\ at'[W(w)] = "serving"
      /\ serving[w] \in Token /\ serving[w] < Len(ownerOf) /\ Owner(serving[w]) = c
      /\ \A s \in Taker : at'[T(s)] = at[T(s)]
      /\ \A v \in Waiter \ {w} : at'[W(v)] = at[W(v)]
      /\ \A d \in Customer \ {c} : at'[C(d)] = at[C(d)] /\ sitWait'[d] = sitWait[d]
      /\ at'[C(c)] = (IF at[C(c)] = "sitting" THEN "fed" ELSE at[C(c)])
      /\ sitWait'[c] = <<W(w)>>
  BY <1>0, <1>1 DEF ServeMove, OnlyMove, meeting, orders
<1>3. /\ Owner(k)' = Owner(k)
      /\ Noting(k)' <=> Noting(k)
      /\ InBag(k)' <=> InBag(k)
      /\ OnList(k)' <=> OnList(k)
      /\ \A v \in Waiter : Holds(v, k)' <=> Holds(v, k)
  BY <1>2, NotingSame DEF InBag, OnList, Holds
<1>4. CASE k # serving[w]
  <2>1. k < Len(ownerOf) => OwnerSame(Owner(k))
    BY <1>0, <1>2, <1>4, OtherOwner DEF OwnerSame
  <2>2. TokenSame(k)
    BY <1>2, <1>3, <1>4, <2>1 DEF TokenSame, WaitersSame, Owner
  <2> QED
    BY <1>0, <2>2, SameToken
<1>5. CASE k = serving[w]
  <2>1. Holds(w, k) /\ k < Len(ownerOf) /\ Owner(k) = c
    BY <1>2, <1>5 DEF Holds
  <2>2. /\ ~InBag(k) /\ ~OnList(k) /\ ~ready[k] /\ ~Noting(k)
        /\ \A v \in Waiter \ {w} : ~Holds(v, k)
    BY <1>0, <2>1 DEF InPlace, Once, Given
  <2>3. eatIn[c] /\ at[C(c)] \in {"numbered", "sitting"}
    BY <1>0, <1>2, <1>5, <2>1 DEF InPlace, Fits, Is
  <2>4. Once(k)' /\ Given(k)'
    BY <1>2, <1>3, <2>1, <2>2 DEF Once, Given
  <2>5. \A v \in Waiter : serving'[v] = k /\ at'[W(v)] \in {"carrying", "serving", "thanked"}
           => v = w
    BY <1>3, <2>2 DEF Holds
  <2>6. eatIn'[c] /\ at'[C(c)] \in {"numbered", "fed"}
    BY <1>2, <2>3
  <2>7. Fits(k)'
    BY <1>2, <1>3, <1>5, <2>1, <2>2, <2>5, <2>6 DEF Fits, Is
  <2> QED
    BY <2>4, <2>7 DEF InPlace
<1> QED
  BY <1>4, <1>5

LEMMA FinishServingPlaces ==
    ASSUME IInv, mode' = mode, NEW w \in Waiter, FinishServing(w), NEW k \in Token
    PROVE  InPlace(k)'
<1>0. /\ Shape /\ NumbersGiven /\ OncePlaced /\ PlacedIsGiven /\ OwnersFit /\ TableQueues
      /\ InPlace(k) /\ k \in Nat /\ sitWait \in [Customer -> Seq(Thread)]
      /\ (k < Len(ownerOf) => Owner(k) \in Customer /\ at[C(Owner(k))] \in Numbered)
  BY Before DEF Shape, Typed
<1>1. PICK c \in Customer : FinishServingMove(c, w)
  BY <1>0, FinishServingMoves
<1>2. /\ toBag' = toBag /\ ready' = ready /\ bagged' = bagged /\ serving' = serving
      /\ ownerOf' = ownerOf /\ eatIn' = eatIn /\ custOf' = custOf
      /\ at[W(w)] = "thanked" /\ at'[W(w)] = "idle"
      /\ serving[w] \in Token /\ serving[w] < Len(ownerOf) /\ Owner(serving[w]) = c
      /\ \A s \in Taker : at'[T(s)] = at[T(s)]
      /\ \A v \in Waiter \ {w} : at'[W(v)] = at[W(v)]
      /\ \A d \in Customer \ {c} : at'[C(d)] = at[C(d)] /\ sitWait'[d] = sitWait[d]
      /\ at'[C(c)] = (IF at[C(c)] = "sitting" THEN "fed" ELSE at[C(c)])
  BY <1>0, <1>1 DEF FinishServingMove, OnlyMove, meeting, orders
<1>3. /\ Owner(k)' = Owner(k)
      /\ Noting(k)' <=> Noting(k)
      /\ InBag(k)' <=> InBag(k)
      /\ OnList(k)' <=> OnList(k)
      /\ \A v \in Waiter \ {w} : Holds(v, k)' <=> Holds(v, k)
      /\ ~Holds(w, k)'
  BY <1>2, NotingSame DEF InBag, OnList, Holds
<1>4. CASE k # serving[w]
  <2>1. k < Len(ownerOf) => OwnerSame(Owner(k))
    BY <1>0, <1>2, <1>4, OtherOwner DEF OwnerSame
  <2>2. TokenSame(k)
    BY <1>2, <1>3, <1>4, <2>1 DEF TokenSame, WaitersSame, Owner
  <2> QED
    BY <1>0, <2>2, SameToken
<1>5. CASE k = serving[w]
  <2>1. Holds(w, k) /\ k < Len(ownerOf) /\ Owner(k) = c
    BY <1>2, <1>5 DEF Holds
  <2>2. /\ ~InBag(k) /\ ~OnList(k) /\ ~ready[k]
        /\ \A v \in Waiter \ {w} : ~Holds(v, k)
    BY <1>0, <2>1 DEF InPlace, Once
  <2>3. at[C(c)] \in {"sitting", "leaving", "full", "gone"}
    BY <1>0, <1>2, <1>5, <2>1 DEF InPlace, Fits, Is
  <2>4. \A v \in Waiter : ~Holds(v, k)'
    BY <1>3, <2>2
  <2>5. Once(k)' /\ Given(k)'
    BY <1>2, <1>3, <2>2, <2>4 DEF Once, Given
  <2>6. at'[C(c)] \in {"fed", "leaving", "full", "gone"}
    BY <1>2, <2>3
  <2>7. Fits(k)'
    BY <1>2, <1>3, <2>1, <2>2, <2>4, <2>6 DEF Fits, Is, Holds
  <2> QED
    BY <2>5, <2>7 DEF InPlace
<1> QED
  BY <1>4, <1>5

LEMMA PlacesStep ==
    ASSUME IInv, Next
    PROVE  OncePlaced' /\ PlacedIsGiven' /\ OwnersFit'
<1>0. /\ Shape /\ OncePlaced /\ mode' = mode /\ bagged \in Seq(Token) /\ IsInjective(bagged)
  BY CustomerSteps DEF IInv, Shape, Typed, OncePlaced
<1>1. \A k \in Token : InPlace(k)'
  BY <1>0, OrderSteps, QuietPlaces, CheckOrderPlaces, SitDownPlaces, EatPlaces,
     GiveNumberPlaces, NoteOrderPlaces, BagOrderPlaces, TakeBagPlaces, ServePlaces,
     FinishServingPlaces
<1>2. IsInjective(bagged')
  <2>1. CASE OrdersQuiet
    BY <1>0, <2>1 DEF OrdersQuiet
  <2>2. ASSUME NEW c \in Customer, CheckOrder(c) \/ SitDown(c) \/ Eat(c)
        PROVE  bagged' = bagged
    BY <2>2 DEF CheckOrder, SitDown, Eat, orders
  <2>3. ASSUME NEW t \in Taker, GiveNumber(t) \/ NoteOrder(t)
        PROVE  bagged' = bagged
    BY <2>3 DEF GiveNumber, NoteOrder, orders
  <2>4. ASSUME NEW t \in Taker, BagOrder(t)
        PROVE  IsInjective(bagged')
    <3>1. PICK k \in Token : BagOrderMove(t, k)
      BY <1>0, <2>4, BagOrderMoves
    <3>2. k \notin Range(bagged)
      BY <1>0, <3>1 DEF BagOrderMove, OncePlaced, Once, OnList
    <3>3. IsInjective(Append(bagged, k))
      BY <1>0, <3>2, AppendQueue
    <3>4. bagged' = bagged \/ bagged' = Append(bagged, k)
      BY <3>1 DEF BagOrderMove, LessLeft, BaggedNow, CalledNow
    <3> QED
      BY <1>0, <3>3, <3>4
  <2>5. ASSUME NEW w \in Waiter, TakeBag(w)
        PROVE  IsInjective(bagged')
    <3>1. bagged # <<>> => IsInjective(Front(bagged))
      BY <1>0, FrontQueue
    <3> QED
      BY <1>0, <2>5, <3>1, TakeBagMoves DEF TakeBagMove
  <2>6. ASSUME NEW w \in Waiter, Serve(w) \/ FinishServing(w)
        PROVE  bagged' = bagged
    BY <2>6 DEF Serve, FinishServing, orders
  <2> QED
    BY <1>0, <2>1, <2>2, <2>3, <2>4, <2>5, <2>6, OrderSteps
<1> QED
  BY <1>1, <1>2 DEF InPlace, OncePlaced, PlacedIsGiven, OwnersFit

-----------------------------------------------------------------------------
(* The invariant holds at the start and is kept *)

\* At first everybody is new, and nothing has happened.
LEMMA Start ==
    ASSUME Init
    PROVE  /\ at \in [Thread -> Place]
           /\ \A c \in Customer : at[C(c)] \in {"new", "absent"}
           /\ \A t \in Taker : at[T(t)] \in {"new", "absent"}
           /\ \A w \in Waiter : at[W(w)] \in {"idle", "absent"}
           /\ \A i \in Food : at[K(i)] = "unhired"
           /\ tables \in Nat /\ tables <= NumTables /\ mode \in Mode
<1> DEFINE G == /\ at \in [Thread -> Place]
                /\ \A c \in Customer : at[C(c)] \in {"new", "absent"}
                /\ \A t \in Taker : at[T(t)] \in {"new", "absent"}
                /\ \A w \in Waiter : at[W(w)] \in {"idle", "absent"}
                /\ \A i \in Food : at[K(i)] = "unhired"
<1>1. ASSUME NEW n, NEW m, NEW l, at = Threads(n, m, l)
      PROVE  G
  <2> DEFINE P(z) == CASE z[1] = "customer" /\ z[2] < n -> "new"
                       [] z[1] = "taker" /\ z[2] <= m -> "new"
                       [] z[1] = "waiter" /\ z[2] <= l -> "idle"
                       [] z[1] = "cook" -> "unhired"
                       [] OTHER -> "absent"
  <2>1. at = [z \in Thread |-> P(z)]
    BY <1>1 DEF Threads
  <2>2. \A z \in Thread :
           \/ z[1] = "customer" /\ P(z) \in {"new", "absent"}
           \/ z[1] = "taker" /\ P(z) \in {"new", "absent"}
           \/ z[1] = "waiter" /\ P(z) \in {"idle", "absent"}
           \/ z[1] = "cook" /\ P(z) = "unhired"
    <3> SUFFICES ASSUME NEW z \in Thread
                 PROVE  \/ z[1] = "customer" /\ P(z) \in {"new", "absent"}
                        \/ z[1] = "taker" /\ P(z) \in {"new", "absent"}
                        \/ z[1] = "waiter" /\ P(z) \in {"idle", "absent"}
                        \/ z[1] = "cook" /\ P(z) = "unhired"
      OBVIOUS
    <3>1. z[1] \in {"customer", "taker", "waiter", "cook"}
      BY Kinds
    <3>2. CASE z[1] = "customer"
      BY <3>2
    <3>3. CASE z[1] = "taker"
      BY <3>3
    <3>4. CASE z[1] = "waiter"
      BY <3>4
    <3>5. CASE z[1] = "cook"
      BY <3>5
    <3> QED
      BY <3>1, <3>2, <3>3, <3>4, <3>5
  <2> HIDE DEF P
  <2>3. {"new", "absent", "idle", "unhired"} \subseteq Place
    BY DEF Place
  <2>4. at \in [Thread -> Place] /\ \A z \in Thread : at[z] = P(z)
    BY <2>1, <2>2, <2>3
  <2> QED
    BY <2>2, <2>4, Names, Kinds
<1> HIDE DEF G
<1>2. G
  BY <1>1 DEF Init, RunSimulation, Test1CustomerWaitsIfRestaurantFull, Test2FoodNotReady,
     Test5SodaWait
<1>3. tables = 0 \/ tables = NumTables
  BY DEF Init, RunSimulation, Test1CustomerWaitsIfRestaurantFull, Test2FoodNotReady,
     Test5SodaWait
<1>4. mode \in Mode
  BY DEF Init
<1> QED
  BY <1>2, <1>3, <1>4 DEF G

LEMMA InitInvariant ==
    ASSUME Init
    PROVE  IInv
<1>0. /\ at \in [Thread -> Place]
      /\ \A c \in Customer : at[C(c)] \in {"new", "absent"}
      /\ \A t \in Taker : at[T(t)] \in {"new", "absent"}
      /\ \A w \in Waiter : at[W(w)] \in {"idle", "absent"}
      /\ \A i \in Food : at[K(i)] = "unhired"
      /\ tables \in Nat /\ tables <= NumTables /\ mode \in Mode
  BY Start
<1>1. Initialize
  BY DEF Init
<1>2. 0 \in Customer /\ 0 \in Taker /\ Manager \in Taker
  BY DEF Customer, Taker, Manager
<1>3. Placed
  BY <1>0 DEF Placed, CustomerPlace, TakerPlace, CookPlace, WaiterPlace
<1>4. Typed
  <2>1. /\ eatIn \in [Customer -> BOOLEAN]
        /\ toEnter \in Seq(Customer) /\ toOrder \in Seq(Customer)
        /\ takerOf \in [Customer -> Taker] /\ custOf \in [Taker -> Customer]
        /\ choice \in [Taker -> SUBSET Nat]
    BY <1>1, <1>2 DEF Initialize
  <2>2. /\ busyWait \in [Taker -> Seq(Thread)] /\ sitWait \in [Customer -> Seq(Thread)]
        /\ tokenOf \in [Customer -> Nat] /\ ownerOf \in Seq(Customer)
        /\ toBag \in [Token -> SUBSET Nat] /\ ready \in [Token -> BOOLEAN]
    BY <1>1 DEF Initialize
  <2>3. /\ bagged \in Seq(Token) /\ serving \in [Waiter -> Token]
        /\ stock \in [0..NumFoods -> 0..NumBought] /\ cooked \in [Food -> Nat]
        /\ onBreak \in [Food -> BOOLEAN]
    BY <1>1, <1>2 DEF Initialize, Token, Customer
  <2>4. money \in Nat /\ step \in [Taker -> Nat] /\ served \in Nat
    BY <1>1 DEF Initialize
  <2> QED
    BY <1>0, <2>1, <2>2, <2>3, <2>4 DEF Typed
<1>5. LoopsBounded
  BY <1>0, <1>2 DEF LoopsBounded, Is
<1>6. KitchenBounded
  <2> SUFFICES ASSUME NEW i \in Food
               PROVE  FoodBounded(i)
    BY DEF KitchenBounded
  <2>1. cooked[i] = 0 /\ stock[i] = 0 /\ at[K(i)] = "unhired"
    BY <1>0, <1>1 DEF Initialize, Food
  <2> QED
    BY <2>1 DEF FoodBounded, Supply, Stove, Is
<1>7. ServedCounted
  <2>1. Gone = {}
    BY <1>0 DEF Gone, Is
  <2> QED
    BY <1>1, <2>1, FS_EmptySet DEF ServedCounted, Initialize
<1>8. StaffStays
  <2> SUFFICES ASSUME NEW z \in Thread
               PROVE  at[z] # "gone"
    BY DEF StaffStays, Is
  <2> QED
    BY <1>0, Kinds
<1>9. Paired
  <2>1. \A t \in Taker : PairedTaker(t)
    BY <1>0, <1>1 DEF PairedTaker, Initialize, Is
  <2>2. \A c \in Customer : PairedCustomer(c)
    BY <1>0 DEF PairedCustomer, Is
  <2> QED
    BY <2>1, <2>2 DEF Paired
<1>10. InLines
  BY <1>1, EmptyQueue DEF InLines, Initialize
<1>11. NumbersGiven
  <2>1. \A c \in Customer : at[C(c)] \notin Numbered
    BY <1>0 DEF Numbered
  <2>2. ownerOf = <<>> /\ Len(ownerOf) = 0
    BY <1>1 DEF Initialize
  <2> QED
    BY <2>1, <2>2, EmptyQueue DEF NumbersGiven
<1>12. RightSide
  BY <1>0 DEF RightSide
<1>13. TablesSound
  <2>1. Seated = {}
    BY <1>0 DEF Seated, Inside
  <2> QED
    BY <1>0, <2>1, FS_EmptySet DEF TablesSound
<1>14. \A k \in Token : ~InBag(k) /\ ~OnList(k) /\ ~ready[k] /\ \A w \in Waiter : ~Holds(w, k)
  BY <1>0, <1>1, EmptyQueue DEF Initialize, InBag, OnList, Holds
<1>15. OncePlaced
  <2>1. IsInjective(bagged)
    BY <1>1, EmptyQueue DEF Initialize
  <2> QED
    BY <1>14, <2>1 DEF OncePlaced, Once
<1>16. PlacedIsGiven
  BY <1>14 DEF PlacedIsGiven, Given
<1>17. OwnersFit
  <2>1. Len(ownerOf) = 0 /\ \A k \in Token : ~(k < 0)
    BY <1>1 DEF Initialize, Token
  <2> QED
    BY <2>1 DEF OwnersFit, Fits
<1>18. TableQueues
  BY <1>0, <1>1 DEF TableQueues, TableOf, Initialize, Is
<1> QED
  BY <1>3, <1>4, <1>5, <1>6, <1>7, <1>8, <1>9, <1>10, <1>11, <1>12, <1>13, <1>15, <1>16,
     <1>17, <1>18 DEF IInv, Shape

\* A step that changes nothing.
LEMMA NoStep ==
    ASSUME IInv, UNCHANGED vars
    PROVE  IInv'
<1>0. /\ mode' = mode /\ at' = at /\ eatIn' = eatIn /\ toEnter' = toEnter /\ tables' = tables
      /\ toOrder' = toOrder /\ takerOf' = takerOf /\ custOf' = custOf /\ choice' = choice
      /\ busyWait' = busyWait /\ sitWait' = sitWait /\ tokenOf' = tokenOf /\ ownerOf' = ownerOf
      /\ toBag' = toBag /\ ready' = ready /\ bagged' = bagged /\ serving' = serving
      /\ stock' = stock /\ cooked' = cooked /\ onBreak' = onBreak /\ money' = money
      /\ step' = step /\ served' = served
  BY DEF vars, lines, meeting, kitchen, orders
<1>1. Shape'
  BY <1>0 DEF IInv, Shape, Placed, Typed
<1>2. LoopsBounded'
  BY <1>0 DEF IInv, LoopsBounded, Is
<1>3. KitchenBounded'
  BY <1>0 DEF IInv, KitchenBounded, FoodBounded, Supply, Stove, Unseen, Is
<1>4. ServedCounted'
  BY <1>0 DEF IInv, ServedCounted, Gone, Is
<1>5. StaffStays'
  BY <1>0 DEF IInv, StaffStays, Is
<1>6. Paired'
  <2>1. \A x : OrderOf(x)' = OrderOf(x)
    BY <1>0 DEF OrderOf
  <2>2. \A t \in Taker : PairedTaker(t)'
    BY <1>0, <2>1 DEF IInv, Paired, PairedTaker, Is
  <2>3. \A c \in Customer : PairedCustomer(c)'
    BY <1>0 DEF IInv, Paired, PairedCustomer, Is
  <2> QED
    BY <2>2, <2>3 DEF Paired
<1>7. InLines'
  BY <1>0 DEF IInv, InLines, Is
<1>8. NumbersGiven'
  BY <1>0 DEF IInv, NumbersGiven
<1>9. RightSide'
  BY <1>0 DEF IInv, RightSide
<1>10. TablesSound'
  BY <1>0 DEF IInv, TablesSound, Seated
<1>11. OncePlaced'
  BY <1>0 DEF IInv, OncePlaced, Once, InBag, OnList, Holds
<1>12. PlacedIsGiven'
  BY <1>0 DEF IInv, PlacedIsGiven, Given, InBag, OnList, Holds, Noting, Owner, Is
<1>13. OwnersFit'
  BY <1>0, SMTT(30) DEF IInv, OwnersFit, Fits, InBag, OnList, Holds, Noting, Owner, OrderOf, Is
<1>14. TableQueues'
  BY <1>0 DEF IInv, TableQueues, TableOf, Owner, Is
<1> QED
  BY <1>1, <1>2, <1>3, <1>4, <1>5, <1>6, <1>7, <1>8, <1>9, <1>10, <1>11, <1>12, <1>13,
     <1>14 DEF IInv

LEMMA IInvStep ==
    ASSUME IInv, [Next]_vars
    PROVE  IInv'
<1>1. CASE Next
  <2>1. Shape'
    BY <1>1, PlacedStep, TypedStep DEF Shape
  <2>2. LoopsBounded' /\ KitchenBounded' /\ ServedCounted' /\ StaffStays'
    BY <1>1, LoopsStep, KitchenStep, ServedStep, StaffStep
  <2>3. Paired' /\ InLines' /\ NumbersGiven' /\ RightSide' /\ TablesSound'
    BY <1>1, PairedStep, LinesStep, NumbersStep, SideStep, TablesStep
  <2>4. OncePlaced' /\ PlacedIsGiven' /\ OwnersFit' /\ TableQueues'
    BY <1>1, PlacesStep, TableStep
  <2> QED
    BY <2>1, <2>2, <2>3, <2>4 DEF IInv
<1>2. CASE UNCHANGED vars
  BY <1>2, NoStep
<1> QED
  BY <1>1, <1>2

LEMMA Invariant == Spec => []IInv
<1>1. Init => IInv
  BY InitInvariant
<1>2. IInv /\ [Next]_vars => IInv'
  BY IInvStep
<1> QED
  BY <1>1, <1>2, PTL DEF Spec

-----------------------------------------------------------------------------
(* What the invariant says of the properties *)

LEMMA StackBound ==
    ASSUME IInv
    PROVE  StackBounded
BY DEF IInv, KitchenBounded, FoodBounded, StackBounded, Stove

LEMMA Meetings ==
    ASSUME IInv
    PROVE  MeetingsSound
<1>0. /\ Shape /\ Paired /\ NumbersGiven /\ PlacedIsGiven /\ OwnersFit /\ TableQueues
  BY DEF IInv
<1>1. Len(<<>>) <= 1 /\ \A x : Len(<<x>>) <= 1
  OBVIOUS
<1>2. \A t \in Taker : Len(busyWait[t]) <= 1
  <2> SUFFICES ASSUME NEW t \in Taker
               PROVE  Len(busyWait[t]) <= 1
    OBVIOUS
  <2>1. busyWait[t] = <<>> \/ busyWait[t] = <<T(t)>> \/ busyWait[t] = <<C(custOf[t])>>
    BY <1>0 DEF Paired, PairedTaker, Is
  <2> QED
    BY <1>1, <2>1
<1>3. \A c \in Customer : Len(sitWait[c]) <= 1
  <2> SUFFICES ASSUME NEW c \in Customer
               PROVE  Len(sitWait[c]) <= 1
    OBVIOUS
  <2>1. sitWait[c] = <<>> \/ sitWait[c] = <<C(c)>> \/ \E w \in Waiter : sitWait[c] = <<W(w)>>
    BY <1>0 DEF TableQueues, TableOf
  <2> QED
    BY <1>1, <2>1
<1>4. \A t \in Taker :
         at[T(t)] \in {"asking", "charging"} =>
            /\ takerOf[custOf[t]] = t
            /\ at[C(custOf[t])] \in (IF at[T(t)] = "asking" THEN {"called"} ELSE {"answered"})
  BY <1>0 DEF Paired, PairedTaker, Is
<1>5. NoStandoff
  BY <1>2, <1>3, <1>4 DEF NoStandoff, Is
<1>6. \A c \in Customer :
         at[C(c)] \in {"numbered", "sitting", "fed", "listening", "checking"} =>
            tokenOf[c] < orderNumCounter /\ ownerOf[tokenOf[c] + 1] = c
  BY <1>0, Owners DEF Numbered, Owner, orderNumCounter
<1>7. \A k \in Token : toBag[k] # {} =>
         k < orderNumCounter /\ toBag[k] \subseteq OrderOf(ownerOf[k + 1])
  <2> SUFFICES ASSUME NEW k \in Token, toBag[k] # {}
               PROVE  k < orderNumCounter /\ toBag[k] \subseteq OrderOf(ownerOf[k + 1])
    OBVIOUS
  <2>1. InBag(k) /\ k < Len(ownerOf)
    BY <1>0 DEF PlacedIsGiven, Given, InBag
  <2>2. toBag[k] \subseteq OrderOf(Owner(k))
    BY <1>0, <2>1 DEF OwnersFit, Fits
  <2> QED
    BY <2>1, <2>2 DEF orderNumCounter, Owner
<1> QED
  BY <1>5, <1>6, <1>7 DEF OwnOrder, MeetingsSound

\* A set in which no two elements differ.
LEMMA AtMostOne ==
    ASSUME NEW S, \A x, y \in S : x = y
    PROVE  Cardinality(S) = IF S = {} THEN 0 ELSE 1
<1>1. CASE S = {}
  BY <1>1, FS_EmptySet
<1>2. CASE S # {}
  <2>1. PICK x \in S : TRUE
    BY <1>2
  <2>2. S = {x}
    BY <2>1
  <2> QED
    BY <2>2, FS_Singleton
<1> QED
  BY <1>1, <1>2

\* How often an order is bagged, and by how many waiters it is carried.
LEMMA BaggedOnce ==
    ASSUME Shape, OncePlaced, NEW k
    PROVE  Bagged(k) = IF OnList(k) THEN 1 ELSE 0
<1> DEFINE S == {i \in DOMAIN bagged : bagged[i] = k}
<1>1. bagged \in Seq(Token) /\ IsInjective(bagged)
  BY DEF Shape, Typed, OncePlaced
<1>2. \A x, y \in S : x = y
  BY <1>1 DEF IsInjective
<1>3. OnList(k) <=> S # {}
  BY DEF OnList, Range
<1>4. Bagged(k) = Cardinality(S)
  BY DEF Bagged
<1> HIDE DEF S
<1> QED
  BY <1>2, <1>3, <1>4, AtMostOne

LEMMA CarriedOnce ==
    ASSUME OncePlaced, NEW k \in Token
    PROVE  Carried(k) = IF \E w \in Waiter : Is(W(w), "carrying") /\ serving[w] = k
                        THEN 1 ELSE 0
<1> DEFINE S == {w \in Waiter : Is(W(w), "carrying") /\ serving[w] = k}
<1>1. \A x, y \in S : x = y
  BY DEF OncePlaced, Once, Holds, Is
<1>2. (\E w \in Waiter : Is(W(w), "carrying") /\ serving[w] = k) <=> S # {}
  OBVIOUS
<1>3. Carried(k) = Cardinality(S)
  BY DEF Carried
<1> HIDE DEF S
<1> QED
  BY <1>1, <1>2, <1>3, AtMostOne

LEMMA Types ==
    ASSUME IInv
    PROVE  TypeOK
<1>1. /\ at \in [Thread -> Place] /\ served = Cardinality(Gone) /\ tables \in Nat
      /\ stock \in [0..NumFoods -> 0..NumBought] /\ cooked \in [Food -> Nat] /\ money \in Nat
      /\ tables + Cardinality(Seated) <= NumTables
      /\ toEnter \in Seq(Customer) /\ IsInjective(toEnter)
      /\ toOrder \in Seq(Customer) /\ IsInjective(toOrder)
      /\ ownerOf \in Seq(Customer) /\ IsInjective(ownerOf)
      /\ bagged \in Seq(Customer) /\ IsInjective(bagged)
  BY DEF IInv, Shape, Placed, Typed, ServedCounted, TablesSound, InLines, NumbersGiven,
     OncePlaced, Token, Customer
<1>2. /\ Len(toEnter) <= NumCustomers /\ Len(toOrder) <= NumCustomers
      /\ Len(ownerOf) <= NumCustomers /\ Len(bagged) <= NumCustomers
  BY <1>1, ShortLine
<1>3. Gone \in SUBSET Customer /\ Seated \in SUBSET Customer
  BY DEF Gone, Seated
<1>4. /\ Cardinality(Gone) \in Nat /\ Cardinality(Gone) <= NumCustomers
      /\ Cardinality(Seated) \in Nat
  BY <1>3, Counting
<1>5. served \in 0..NumCustomers /\ tables \in 0..NumTables /\ money >= 0
  BY <1>1, <1>4
<1> QED
  BY <1>1, <1>2, <1>5 DEF TypeOK, orderNumCounter

LEMMA Kept ==
    ASSUME IInv
    PROVE  OrdersKept
<1>0. /\ Shape /\ Paired /\ NumbersGiven /\ OncePlaced /\ PlacedIsGiven /\ OwnersFit
  BY DEF IInv
<1> DEFINE Carry(k) == \E w \in Waiter : Is(W(w), "carrying") /\ serving[w] = k
<1>1. ASSUME NEW k \in Token
      PROVE  /\ Bagged(k) = (IF OnList(k) THEN 1 ELSE 0)
             /\ Carried(k) = (IF Carry(k) THEN 1 ELSE 0)
             /\ Carry(k) => \E w \in Waiter : Holds(w, k)
  BY <1>0, BaggedOnce, CarriedOnce DEF Holds, Is
<1>2. ASSUME NEW k \in Token
      PROVE  /\ InLists(k) <= 1
             /\ InBag(k) \/ OnList(k) \/ Carry(k) \/ ready[k] => InLists(k) = 1
  <2>1. /\ InBag(k) => ~OnList(k) /\ ~ready[k] /\ ~Carry(k)
        /\ OnList(k) => ~ready[k] /\ ~Carry(k)
        /\ ready[k] => ~Carry(k)
    BY <1>0, <1>1 DEF OncePlaced, Once
  <2>2. InLists(k) = (IF InBag(k) THEN 1 ELSE 0) + (IF OnList(k) THEN 1 ELSE 0)
                       + (IF Carry(k) THEN 1 ELSE 0) + (IF ready[k] THEN 1 ELSE 0)
    BY <1>1 DEF InLists, InBag
  <2> HIDE DEF Carry
  <2> QED
    BY <2>1, <2>2
<1>3. ASSUME NEW c \in Customer, NEW k \in Numbers(c)
      PROVE  /\ ready[k] => ~eatIn[c]
             /\ Bagged(k) + Carried(k) > 0 => eatIn[c]
             /\ Is(C(c), "sitting") \/ Is(C(c), "listening") =>
                  \/ InLists(k) = 1
                  \/ Is(T(takerOf[c]), "noting") /\ custOf[takerOf[c]] = c
                  \/ Is(C(c), "sitting") /\ \E w \in Waiter :
                        serving[w] = k /\ at[W(w)] \in {"serving", "thanked"}
  <2>1. k \in Token /\ k < Len(ownerOf) /\ Owner(k) = c /\ Fits(k)
    BY <1>0, <1>3 DEF Numbers, orderNumCounter, Owner, OwnersFit
  <2>2. /\ OnList(k) => eatIn[c]
        /\ ready[k] => ~eatIn[c]
        /\ \A w \in Waiter : serving[w] = k =>
             /\ at[W(w)] = "carrying" => eatIn[c]
             /\ at[W(w)] = "serving" => at[C(c)] \in {"numbered", "fed"}
             /\ at[W(w)] = "thanked" => at[C(c)] \in {"sitting", "leaving", "full", "gone"}
        /\ at[C(c)] \in {"sitting", "listening"} =>
             \/ Noting(k) \/ InBag(k) \/ OnList(k) \/ ready[k]
             \/ \E w \in Waiter : Holds(w, k)
    BY <2>1 DEF Fits, Is
  <2>3. Bagged(k) + Carried(k) > 0 => eatIn[c]
    <3>1. Carry(k) => eatIn[c]
      BY <2>2 DEF Is
    <3> HIDE DEF Carry
    <3> QED
      BY <1>1, <2>1, <2>2, <3>1
  <2>4. ASSUME at[C(c)] \in {"sitting", "listening"}
        PROVE  \/ InLists(k) = 1
               \/ Is(T(takerOf[c]), "noting") /\ custOf[takerOf[c]] = c
               \/ Is(C(c), "sitting") /\ \E w \in Waiter :
                     serving[w] = k /\ at[W(w)] \in {"serving", "thanked"}
    <3>1. ASSUME Noting(k)
          PROVE  Is(T(takerOf[c]), "noting") /\ custOf[takerOf[c]] = c
      BY <1>0, <2>1, <3>1 DEF Noting, Paired, PairedTaker
    <3>2. ASSUME NEW w \in Waiter, Holds(w, k)
          PROVE  Carry(k) \/ (at[C(c)] = "sitting" /\ at[W(w)] = "thanked" /\ serving[w] = k)
      BY <2>2, <2>4, <3>2 DEF Holds, Is
    <3> HIDE DEF Carry
    <3> QED
      BY <1>2, <2>1, <2>2, <2>4, <3>1, <3>2 DEF Is
  <2> QED
    BY <2>2, <2>3, <2>4 DEF Is
<1> QED
  BY <1>2, <1>3 DEF OrdersKept

-----------------------------------------------------------------------------
(* The properties *)

\* In every behaviour an order taker and the customer it has called wait for
\* each other in turn and never both at once, the same holds for a waiter and a
\* customer at the table, nobody else joins either pair, and each customer gets
\* the number that is his alone and what he ordered (serviceCustomer, the eat-in
\* part of Customer and Waiter), however many there are of each.
THEOREM PairsMeet == Spec => []MeetingsSound
<1>1. IInv => MeetingsSound
  BY Meetings
<1> QED
  BY <1>1, Invariant, PTL

\* Every order is noted, in one list only, or on its way to the one who waits
\* for it, and the lines, the numbers and the counters stay within the arrays
\* they index (toBag, baggedOrders, bool_ListOrdersReadyFromToken).
THEOREM OrdersNeverLost == Spec => []OrdersSound
<1>1. IInv => OrdersSound
  BY Types, Kept DEF OrdersSound
<1> QED
  BY <1>1, Invariant, PTL

\* What is cooked stays within a bound that depends on the limit of the stack and
\* on what is bought at a time, not on how the manager and the cooks take turns
\* (manageCook, orderInventoryFood, Cook).
THEOREM StacksBounded == Spec => []StackBounded
<1>1. IInv => StackBounded
  BY StackBound
<1> QED
  BY <1>1, Invariant, PTL

\* When the number to wait for is right, no order taker, waiter, cook or manager
\* goes home before every customer has left (the exit tests of the loops).
THEOREM NobodyLeavesEarly == Spec => []StaffStays
<1>1. IInv => StaffStays
  BY DEF IInv
<1> QED
  BY <1>1, Invariant, PTL
=============================================================================
