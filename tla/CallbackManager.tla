--------------------------- MODULE CallbackManager ---------------------------
(***************************************************************************)
(* CallbackManager (src/callback_manager.cc): callbacks that wait for the  *)
(* answers to a message, called once per answer, or with kKadTimeout for   *)
(* every answer still missing when the message times out.                  *)
(*                                                                         *)
(* callback_map_ changes under callback_map_mutex_, and the callbacks are  *)
(* called after it is unlocked: `pending` counts the calls that threads    *)
(* have decided on under the lock and not made yet.  Which thread makes    *)
(* them does not matter, except for the timer thread, which makes its own  *)
(* calls before it goes on (timer_item, timer_left).                       *)
(***************************************************************************)
EXTENDS Integers, FiniteSets, Functions

CONSTANTS
    Item,          \* CallbackItem objects; each is added once
    NoItem,
    MessageIds,    \* number of message ids: 2^32 in the code
    expect,        \* expect[i], timeout[i]: the arguments of Add
    timeout

ASSUME CallbackAssumption ==
    /\ NoItem \notin Item
    /\ MessageIds \in Nat \ {0}
    /\ expect \in [Item -> Nat \ {0}]
    /\ timeout \in [Item -> Nat \ {0}]

VARIABLES
    msg_id_,           \* the counter of MessageId
    callback_map_,     \* from message id to item
    expect_count,      \* fields of the items
    timeout_sec,
    created,           \* items that were passed to Add
    ignored,           \* items that Add did not insert: their id was taken
    pending,           \* calls decided on by Callback or Cancel, not made yet
    called,            \* calls of the item's callback so far
    silenced,          \* answers given up without a call: Cancel(id, 1), Join
    message_vec,       \* TimeoutCheck: ids found expired, still to be timed out
    timer_item,        \* item whose callback the timer thread is calling
    timer_left,        \* calls it still has to make
    joined             \* Join was called: the timer is stopped

items == <<expect_count, timeout_sec, created, ignored>>
timer == <<message_vec, timer_item, timer_left>>
vars == <<msg_id_, callback_map_, items, pending, called, silenced, timer, joined>>

MessageId == (msg_id_ + 1) % MessageIds

Erase(m, k) == Restrict(m, DOMAIN m \ {k})

TimerIdle == message_vec = {} /\ timer_item = NoItem

Init ==
    /\ msg_id_ \in 0 .. MessageIds - 1
    /\ callback_map_ = [x \in {} |-> NoItem]
    /\ expect_count = expect /\ timeout_sec = timeout
    /\ created = {} /\ ignored = {}
    /\ pending = [i \in Item |-> 0]
    /\ called = [i \in Item |-> 0]
    /\ silenced = [i \in Item |-> 0]
    /\ message_vec = {} /\ timer_item = NoItem /\ timer_left = 0
    /\ joined = FALSE

(* MessageId, then Add: insert does not replace an item of the same id.    *)
Add(i) ==
    /\ i \notin created
    /\ created' = created \cup {i}
    /\ msg_id_' = MessageId
    /\ IF MessageId \in DOMAIN callback_map_
       THEN ignored' = ignored \cup {i} /\ UNCHANGED callback_map_
       ELSE /\ callback_map_' = [x \in DOMAIN callback_map_ \cup {MessageId} |->
                                    IF x = MessageId THEN i ELSE callback_map_[x]]
            /\ UNCHANGED ignored
    /\ UNCHANGED <<expect_count, timeout_sec, pending, called, silenced, timer, joined>>

CallbackErasing(id) ==                          \* mutant: erases at the first answer
    /\ id \in DOMAIN callback_map_
    /\ LET i == callback_map_[id]
       IN  /\ expect_count' = [expect_count EXCEPT ![i] = @ - 1]
           /\ callback_map_' = Erase(callback_map_, id)
           /\ pending' = [pending EXCEPT ![i] = @ + 1]
    /\ UNCHANGED <<msg_id_, timeout_sec, created, ignored, called, silenced, timer, joined>>

CallbackOffByOne(id) ==                         \* mutant: < 0 instead of <= 0
    /\ id \in DOMAIN callback_map_
    /\ LET i == callback_map_[id]
       IN  /\ expect_count' = [expect_count EXCEPT ![i] = @ - 1]
           /\ callback_map_' = IF expect_count[i] - 1 < 0
                               THEN Erase(callback_map_, id) ELSE callback_map_
           /\ pending' = [pending EXCEPT ![i] = @ + 1]
    /\ UNCHANGED <<msg_id_, timeout_sec, created, ignored, called, silenced, timer, joined>>

(* An answer to message id arrives: count it, and call the callback after  *)
(* the lock is released.                                                   *)
Callback(id) ==
    /\ id \in DOMAIN callback_map_
    /\ LET i == callback_map_[id]
       IN  /\ expect_count' = [expect_count EXCEPT ![i] = @ - 1]
           /\ callback_map_' = IF expect_count[i] - 1 <= 0
                               THEN Erase(callback_map_, id) ELSE callback_map_
           /\ pending' = [pending EXCEPT ![i] = @ + 1]
    /\ UNCHANGED <<msg_id_, timeout_sec, created, ignored, called, silenced, timer, joined>>

(* Cancel(id, 0): one call for every answer that is missing.               *)
CancelWithCallback(id) ==
    /\ id \in DOMAIN callback_map_
    /\ LET i == callback_map_[id]
       IN  pending' = [pending EXCEPT ![i] = @ + expect_count[i]]
    /\ callback_map_' = Erase(callback_map_, id)
    /\ UNCHANGED <<msg_id_, items, called, silenced, timer, joined>>

(* Cancel(id, 1).                                                          *)
CancelSilently(id) ==
    /\ id \in DOMAIN callback_map_
    /\ LET i == callback_map_[id]
       IN  silenced' = [silenced EXCEPT ![i] = @ + expect_count[i]]
    /\ callback_map_' = Erase(callback_map_, id)
    /\ UNCHANGED <<msg_id_, items, pending, called, timer, joined>>

(* A thread outside the lock calls the callback of the item it took.       *)
Call(i) ==
    /\ pending[i] > 0
    /\ pending' = [pending EXCEPT ![i] = @ - 1]
    /\ called' = [called EXCEPT ![i] = @ + 1]
    /\ UNCHANGED <<msg_id_, callback_map_, items, silenced, timer, joined>>

TimeoutCheckEarly ==                            \* mutant: a second too early
    /\ ~joined /\ TimerIdle
    /\ timeout_sec' = [i \in Item |->
            IF i \in Range(callback_map_) THEN timeout_sec[i] - 1 ELSE timeout_sec[i]]
    /\ message_vec' = {id \in DOMAIN callback_map_ :
                            timeout_sec[callback_map_[id]] - 1 <= 1}
    /\ UNCHANGED <<msg_id_, callback_map_, expect_count, created, ignored,
                   pending, called, silenced, timer_item, timer_left, joined>>

TimeoutCheckOnCopy ==                           \* mutant: counts down a copy
    /\ ~joined /\ TimerIdle
    /\ message_vec' = {id \in DOMAIN callback_map_ :
                            timeout_sec[callback_map_[id]] - 1 <= 0}
    /\ UNCHANGED <<msg_id_, callback_map_, items,
                   pending, called, silenced, timer_item, timer_left, joined>>

(* TimeoutCheck, under the lock: count all items down, collect the ids of  *)
(* the expired ones.                                                       *)
TimeoutCheck ==
    /\ ~joined /\ TimerIdle
    /\ timeout_sec' = [i \in Item |->
            IF i \in Range(callback_map_) THEN timeout_sec[i] - 1 ELSE timeout_sec[i]]
    /\ message_vec' = {id \in DOMAIN callback_map_ :
                            timeout_sec[callback_map_[id]] - 1 <= 0}
    /\ UNCHANGED <<msg_id_, callback_map_, expect_count, created, ignored,
                   pending, called, silenced, timer_item, timer_left, joined>>

(* Timeout of the next collected id: Cancel(id, 0) by the timer thread,    *)
(* with whatever item the map holds for the id by now.                     *)
Timeout(id) ==
    /\ timer_item = NoItem /\ id \in message_vec
    /\ message_vec' = message_vec \ {id}
    /\ IF id \in DOMAIN callback_map_
       THEN /\ timer_item' = callback_map_[id]
            /\ timer_left' = expect_count[callback_map_[id]]
            /\ callback_map_' = Erase(callback_map_, id)
       ELSE UNCHANGED <<callback_map_, timer_item, timer_left>>
    /\ UNCHANGED <<msg_id_, items, pending, called, silenced, joined>>

TimerCallOffByOne ==                            \* mutant: one call too many
    /\ timer_item # NoItem
    /\ called' = [called EXCEPT ![timer_item] = @ + 1]
    /\ timer_left' = timer_left - 1
    /\ timer_item' = IF timer_left - 1 < 0 THEN NoItem ELSE timer_item
    /\ UNCHANGED <<msg_id_, callback_map_, items, pending, silenced, message_vec, joined>>

(* The timer thread makes one of the calls of Cancel's loop.               *)
TimerCall ==
    /\ timer_item # NoItem
    /\ called' = [called EXCEPT ![timer_item] = @ + 1]
    /\ timer_left' = timer_left - 1
    /\ timer_item' = IF timer_left - 1 <= 0 THEN NoItem ELSE timer_item
    /\ UNCHANGED <<msg_id_, callback_map_, items, pending, silenced, message_vec, joined>>

(* Join: the timer thread ends after the check it is in, then the map is   *)
(* cleared.                                                                *)
Join ==
    /\ ~joined /\ TimerIdle
    /\ joined' = TRUE
    /\ silenced' = [i \in Item |->
            IF i \in Range(callback_map_) THEN silenced[i] + expect_count[i] ELSE silenced[i]]
    /\ callback_map_' = [x \in {} |-> NoItem]
    /\ UNCHANGED <<msg_id_, items, pending, called, timer>>

Ids == 0 .. MessageIds - 1

Next == \/ \E i \in Item : Add(i) \/ Call(i)
        \/ \E id \in Ids : \/ Callback(id) \/ CancelWithCallback(id)
                           \/ CancelSilently(id) \/ Timeout(id)
        \/ TimeoutCheck \/ TimerCall \/ Join

Spec == Init /\ [][Next]_vars

(* The timer fires again and again, its thread goes on with what it has to *)
(* time out, and a thread that took an item calls its callback.            *)
Fairness == /\ WF_vars(TimeoutCheck) /\ WF_vars(TimerCall)
            /\ \A id \in Ids : WF_vars(Timeout(id))
            /\ \A i \in Item : WF_vars(Call(i))

FairSpec == Spec /\ Fairness
-----------------------------------------------------------------------------
(* Types; only items that were added wait or are timed out.                *)
TypeOK ==
    /\ msg_id_ \in Ids
    /\ DOMAIN callback_map_ \subseteq Ids
    /\ callback_map_ \in [DOMAIN callback_map_ -> created]
    /\ created \subseteq Item /\ ignored \subseteq created
    /\ expect_count \in [Item -> Int] /\ timeout_sec \in [Item -> Int]
    /\ pending \in [Item -> Nat] /\ called \in [Item -> Nat]
    /\ silenced \in [Item -> Nat]
    /\ message_vec \subseteq Ids
    /\ timer_item \in created \cup {NoItem} /\ timer_left \in Nat
    /\ joined \in BOOLEAN

Waiting(i) == i \in Range(callback_map_)

StillExpected(i) == IF Waiting(i) THEN expect_count[i] ELSE 0

TimerOwes(i) == IF timer_item = i THEN timer_left ELSE 0

(* Every expected answer is accounted for exactly once, however Callback,  *)
(* Cancel and the timer interleave: it is still expected, or its call is   *)
(* on the way, or it was made, or it was given up without a call.          *)
AnswersAccounted ==
    \A i \in Item :
        called[i] + pending[i] + TimerOwes(i) + silenced[i] + StillExpected(i)
            = IF i \in created \ ignored THEN expect[i] ELSE 0

(* The manager is an AnswerLedger: whatever ids, map, timer and threads    *)
(* do, an answer that is missing is made due once, by Callback, Cancel or  *)
(* Timeout, or given up with its item, and a call that is due is made once.*)
AL == INSTANCE AnswerLedger WITH
        Request <- Item, expected <- expect,
        accepted <- created \ ignored,
        missing <- [i \in Item |-> StillExpected(i)],
        due <- [i \in Item |-> pending[i] + TimerOwes(i)],
        made <- called

ImplementsAnswerLedger == AL!Spec

(* The timer only times out items whose time has run out, although it      *)
(* looks the id up again after it has released the lock.  Until msg_id_    *)
(* wraps, that is: an id that is given out again between TimeoutCheck and  *)
(* Timeout would time out the new item.                                    *)
TimesOutExpiredOnly ==
    [][(timer_item = NoItem /\ timer_item' # NoItem /\ Cardinality(created) <= MessageIds)
            => timeout_sec[timer_item'] <= 0]_vars

(* Every accepted item is settled: all its calls are made or given up.     *)
(* Items added after Join have no timer.                                   *)
ItemsSettle ==
    \A i \in Item :
        Waiting(i) ~> (called[i] + silenced[i] = expect[i] \/ joined)
=============================================================================
