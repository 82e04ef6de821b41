-------------------------------- MODULE FanOut --------------------------------
(***************************************************************************)
(* runWithConcurrency over calls that withRetry repeats: a bounded number  *)
(* of lanes share the index of the next item, take one each, call for it   *)
(* until it succeeds or its attempts are spent, and go on with the next.   *)
(* The first call that gives up rejects the whole, and the other lanes do  *)
(* not hear of it.  Delays between attempts are only told apart from calls.*)
(***************************************************************************)
EXTENDS Integers, FiniteSets

CONSTANTS
    Limits,             \* the limits asked for, any integers
    Sizes,              \* the numbers of items, naturals
    Requested,          \* the attempts asked for: integers, or Unusable
    Unusable            \* a number of attempts that is not finite

MIN_ATTEMPTS == 1
DEFAULT_ATTEMPTS == 3

VARIABLES
    size, limit, attempts,      \* the arguments
    nextIndex,          \* the index the lanes share
    lanes,              \* lanes[w]: the item it calls for, its attempt, and where it stands
    results,            \* results[i]: whose value it holds
    outcome,            \* of the promise: pending, resolved or rejected
    begun               \* history: how often a lane began item i

fanOutVars == <<size, limit, attempts, nextIndex, lanes, results, outcome, begun>>

NoItem == 0
AtLeast(n, least) == IF n < least THEN least ELSE n
AtMost(n, most) == IF n > most THEN most ELSE n

(* withRetry's budget: a whole number of attempts, at least one.           *)
Budget == IF attempts = Unusable THEN DEFAULT_ATTEMPTS ELSE AtLeast(attempts, MIN_ATTEMPTS)

(* workerCount                                                             *)
Lanes(n, asked) == 1 .. AtLeast(AtMost(asked, n), 1)

Calling(item) == [at |-> "calling", item |-> item, attempt |-> MIN_ATTEMPTS]
Lane(at) == [at |-> at, item |-> NoItem, attempt |-> 0]

(* The lanes take their first items one after the other, at once; there are*)
(* none without items.                                                     *)
FanOutInit ==
    /\ size \in Sizes /\ limit \in Limits /\ attempts \in Requested
    /\ results = [i \in 1 .. size |-> NoItem]
    /\ lanes = IF size = 0 THEN <<>> ELSE [w \in Lanes(size, limit) |-> Calling(w)]
    /\ nextIndex = IF size = 0 THEN 1 ELSE Cardinality(Lanes(size, limit)) + 1
    /\ begun = [i \in 1 .. size |-> IF i < nextIndex THEN 1 ELSE 0]
    /\ outcome = IF size = 0 THEN "resolved" ELSE "pending"

(* runNext, once more: past the last item the lane ends, and the last lane *)
(* to end resolves the whole.                                              *)
RunNext(w) ==
    IF nextIndex > size
    THEN /\ lanes' = [lanes EXCEPT ![w] = Lane("ended")]
         /\ outcome' = IF \A v \in DOMAIN lanes \ {w} : lanes[v].at = "ended" THEN "resolved" ELSE outcome
         /\ nextIndex' = nextIndex + 1
         /\ UNCHANGED begun
    ELSE /\ lanes' = [lanes EXCEPT ![w] = Calling(nextIndex)]
         /\ nextIndex' = nextIndex + 1
         /\ begun' = [begun EXCEPT ![nextIndex] = @ + 1]
         /\ UNCHANGED outcome

(* Faulty: the result is put where the shared index stands by now.         *)
SucceedAtIndex(w) ==
    /\ lanes[w].at = "calling"
    /\ results' = [i \in DOMAIN results |->
                      IF i = AtMost(nextIndex - 1, size) THEN lanes[w].item ELSE results[i]]
    /\ RunNext(w)
    /\ UNCHANGED <<size, limit, attempts>>

(* The call resolves: its result goes to its own item's place.             *)
Succeed(w) ==
    /\ lanes[w].at = "calling"
    /\ results' = [results EXCEPT ![lanes[w].item] = lanes[w].item]
    /\ RunNext(w)
    /\ UNCHANGED <<size, limit, attempts>>

(* It rejects, and the error is worth another attempt, while there is one. *)
FailForNow(w) ==
    /\ lanes[w].at = "calling" /\ lanes[w].attempt < Budget
    /\ lanes' = [lanes EXCEPT ![w].at = "sleeping"]
    /\ UNCHANGED <<size, limit, attempts, nextIndex, results, outcome, begun>>

Retry(w) ==
    /\ lanes[w].at = "sleeping"
    /\ lanes' = [lanes EXCEPT ![w].at = "calling", ![w].attempt = @ + 1]
    /\ UNCHANGED <<size, limit, attempts, nextIndex, results, outcome, begun>>

(* It rejects for good: a business error, or the last attempt.             *)
GiveUp(w) ==
    /\ lanes[w].at = "calling"
    /\ lanes' = [lanes EXCEPT ![w] = Lane("failed")]
    /\ outcome' = "rejected"
    /\ UNCHANGED <<size, limit, attempts, nextIndex, results, begun>>

FanOutNext ==
    \E w \in DOMAIN lanes :
        \/ Succeed(w)
        \/ FailForNow(w)
        \/ Retry(w)
        \/ GiveUp(w)

FanOutSpec == FanOutInit /\ [][FanOutNext]_fanOutVars

-------------------------------------------------------------------------------
(* However the lanes interleave over the index they share, an item is taken*)
(* by one lane, its result lands in its own place, and the whole resolves  *)
(* only with every item's result in hand and no call under way             *)
(* (run-with-concurrency.ts:23-41).                                        *)
FanOutSound ==
    /\ \A i \in 1 .. size : begun[i] <= 1 /\ results[i] \in {NoItem, i}
    /\ outcome = "resolved" =>
         /\ \A i \in 1 .. size : begun[i] = 1 /\ results[i] = i
         /\ \A w \in DOMAIN lanes : lanes[w].at = "ended"

===============================================================================
