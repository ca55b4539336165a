------------------------ MODULE CallbackManagerProofs ------------------------
(***************************************************************************)
(* The accounting of CallbackManager for every number of items, answers    *)
(* and message ids.                                                        *)
(***************************************************************************)
EXTENDS CallbackManager, FiniteSetTheorems, TLAPS

(***************************************************************************)
(* What AnswersAccounted needs to be inductive: an item waits under one id *)
(* only and with an answer missing, the timer has a call to make while it  *)
(* holds an item, and an item that was never added is as it was created.   *)
(***************************************************************************)
OneId == \A x, y \in DOMAIN callback_map_ : callback_map_[x] = callback_map_[y] => x = y

WaitingExpects ==
    \A x \in DOMAIN callback_map_ : /\ expect_count[callback_map_[x]] >= 1
                                    /\ callback_map_[x] \notin ignored

TimerHasCalls == timer_item # NoItem => timer_left >= 1

Fresh == \A i \in Item \ created : expect_count[i] = expect[i]

Inv == /\ TypeOK /\ OneId /\ WaitingExpects /\ TimerHasCalls /\ Fresh
       /\ AnswersAccounted

(* Erasing an id takes its item, and no other, off the map.                *)
LEMMA EraseOne ==
    ASSUME OneId, NEW id \in DOMAIN callback_map_
    PROVE  LET m == Erase(callback_map_, id)
           IN  /\ DOMAIN m = DOMAIN callback_map_ \ {id}
               /\ \A x \in DOMAIN m : m[x] = callback_map_[x]
               /\ Range(m) = Range(callback_map_) \ {callback_map_[id]}
BY DEF Erase, Restrict, Range, OneId

(* Every step of the manager preserves the invariant.                      *)
LEMMA InvStep == Inv /\ [Next]_vars => Inv'
<1> SUFFICES ASSUME Inv, [Next]_vars PROVE Inv'
  OBVIOUS
<1> USE CallbackAssumption
<1>0. /\ TypeOK /\ OneId /\ WaitingExpects /\ TimerHasCalls /\ Fresh /\ AnswersAccounted
  BY DEF Inv
<1>1. CASE UNCHANGED vars
  BY <1>1 DEF vars, items, timer, Inv, TypeOK, OneId, WaitingExpects, TimerHasCalls,
              Fresh, AnswersAccounted, TimerOwes, StillExpected, Waiting
<1>2. ASSUME NEW i \in Item, Add(i) PROVE Inv'
  <2>1. MessageId \in Ids
    BY <1>0 DEF MessageId, Ids, TypeOK
  <2>2. CASE MessageId \in DOMAIN callback_map_
    <3>1. /\ ignored' = ignored \cup {i} /\ created' = created \cup {i}
          /\ UNCHANGED <<callback_map_, expect_count, timeout_sec, pending, called,
                         silenced, message_vec, timer_item, timer_left, joined>>
          /\ i \notin created /\ msg_id_' = MessageId
      BY <1>2, <2>2 DEF Add, timer
    <3>2. TypeOK'
      BY <1>0, <2>1, <3>1 DEF TypeOK
    <3>3. OneId' /\ WaitingExpects' /\ TimerHasCalls' /\ Fresh'
      BY <1>0, <3>1 DEF OneId, WaitingExpects, TimerHasCalls, Fresh, TypeOK
    <3>4. AnswersAccounted'
      BY <1>0, <3>1 DEF AnswersAccounted, TimerOwes, StillExpected, Waiting, TypeOK
    <3> QED BY <3>2, <3>3, <3>4 DEF Inv
  <2>3. CASE MessageId \notin DOMAIN callback_map_
    <3>1. /\ callback_map_' = [x \in DOMAIN callback_map_ \cup {MessageId} |->
                                  IF x = MessageId THEN i ELSE callback_map_[x]]
          /\ created' = created \cup {i}
          /\ UNCHANGED <<ignored, expect_count, timeout_sec, pending, called,
                         silenced, message_vec, timer_item, timer_left, joined>>
          /\ i \notin created /\ msg_id_' = MessageId
      BY <1>2, <2>3 DEF Add, timer
    <3>2. TypeOK'
      BY <1>0, <2>1, <3>1 DEF TypeOK
    <3>3. OneId' /\ WaitingExpects' /\ TimerHasCalls' /\ Fresh'
      BY <1>0, <2>3, <3>1 DEF OneId, WaitingExpects, TimerHasCalls, Fresh, TypeOK
    <3>4. Range(callback_map_') = Range(callback_map_) \cup {i}
      BY <2>3, <3>1 DEF Range
    <3>5. ASSUME NEW j \in Item
          PROVE  called'[j] + pending'[j] + TimerOwes(j)' + silenced'[j] + StillExpected(j)'
                   = IF j \in created' \ ignored' THEN expect[j] ELSE 0
      <4>1. CASE j = i
        <5>1. i \notin Range(callback_map_) /\ timer_item # i /\ i \notin ignored
          BY <1>0, <3>1 DEF TypeOK, Range
        <5>2. called[i] + pending[i] + 0 + silenced[i] + 0 = 0
          BY <1>0, <3>1, <5>1 DEF AnswersAccounted, TimerOwes, StillExpected, Waiting
        <5>3. expect_count[i] = expect[i]
          BY <1>0, <3>1 DEF Fresh
        <5>4. /\ TimerOwes(i)' = 0 /\ StillExpected(i)' = expect[i]
              /\ i \in created' \ ignored'
          BY <3>1, <3>4, <5>1, <5>3 DEF TimerOwes, StillExpected, Waiting
        <5>5. /\ called'[i] \in Nat /\ pending'[i] \in Nat /\ silenced'[i] \in Nat
              /\ called'[i] + pending'[i] + 0 + silenced'[i] + 0 = 0 /\ expect[i] \in Nat
          BY <1>0, <3>1, <5>2 DEF TypeOK
        <5> QED BY <4>1, <5>4, <5>5
      <4>2. CASE j # i
        BY <1>0, <3>1, <3>4, <4>2 DEF AnswersAccounted, TimerOwes, StillExpected, Waiting
      <4> QED BY <4>1, <4>2
    <3> QED BY <3>2, <3>3, <3>5 DEF Inv, AnswersAccounted
  <2> QED BY <2>2, <2>3
<1>3. ASSUME NEW i \in Item, Call(i) PROVE Inv'
  <2>1. TypeOK'
    BY <1>0, <1>3 DEF Call, TypeOK, items, timer
  <2>2. OneId' /\ WaitingExpects' /\ TimerHasCalls' /\ Fresh'
    BY <1>0, <1>3 DEF Call, OneId, WaitingExpects, TimerHasCalls, Fresh, items, timer
  <2>3. AnswersAccounted'
    <3> SUFFICES ASSUME NEW j \in Item
                 PROVE  called'[j] + pending'[j] + TimerOwes(j)' + silenced'[j] + StillExpected(j)'
                          = IF j \in created' \ ignored' THEN expect[j] ELSE 0
      BY DEF AnswersAccounted
    <3>1. called[j] + pending[j] + TimerOwes(j) + silenced[j] + StillExpected(j)
                 = IF j \in created \ ignored THEN expect[j] ELSE 0
      BY <1>0 DEF AnswersAccounted
    <3>2. /\ TimerOwes(j)' = TimerOwes(j) /\ StillExpected(j)' = StillExpected(j)
          /\ TimerOwes(j) \in Int /\ StillExpected(j) \in Int
      BY <1>0, <1>3 DEF Call, TimerOwes, StillExpected, Waiting, TypeOK, items, timer
    <3>3. /\ called'[j] + pending'[j] = called[j] + pending[j]
          /\ called'[j] \in Int /\ pending'[j] \in Int
          /\ UNCHANGED <<silenced, created, ignored>> /\ silenced[j] \in Int
      BY <1>0, <1>3 DEF Call, TypeOK, items
    <3> QED BY <1>0, <3>1, <3>2, <3>3 DEF TypeOK
  <2> QED BY <2>1, <2>2, <2>3 DEF Inv
<1>4. ASSUME NEW id \in Ids, Callback(id) PROVE Inv'
  <2>1. PICK i : i = callback_map_[id]
    OBVIOUS
  <2>2. /\ id \in DOMAIN callback_map_ /\ i \in Item /\ i \in created /\ i \notin ignored
        /\ expect_count[i] \in Int /\ expect_count[i] >= 1 /\ i \in Range(callback_map_)
    BY <1>0, <1>4, <2>1 DEF Callback, TypeOK, WaitingExpects, Range
  <2>3. /\ expect_count' = [expect_count EXCEPT ![i] = @ - 1]
        /\ callback_map_' = IF expect_count[i] - 1 <= 0
                            THEN Erase(callback_map_, id) ELSE callback_map_
        /\ pending' = [pending EXCEPT ![i] = @ + 1]
        /\ UNCHANGED <<msg_id_, timeout_sec, created, ignored, called, silenced,
                       message_vec, timer_item, timer_left, joined>>
    BY <1>4, <2>1 DEF Callback, timer
  <2>4. \A x \in DOMAIN callback_map_ : callback_map_[x] = i => x = id
    BY <1>0, <2>1, <2>2 DEF OneId
  <2>5. /\ DOMAIN callback_map_' \subseteq DOMAIN callback_map_
        /\ callback_map_' \in [DOMAIN callback_map_' -> created]
        /\ \A x \in DOMAIN callback_map_' : callback_map_'[x] = callback_map_[x]
        /\ Range(callback_map_') = IF expect_count[i] - 1 <= 0
                                   THEN Range(callback_map_) \ {i} ELSE Range(callback_map_)
        /\ expect_count[i] - 1 <= 0 => id \notin DOMAIN callback_map_'
    BY <1>0, <2>1, <2>2, <2>3, EraseOne DEF TypeOK, Erase, Restrict
  <2>6. TypeOK'
    BY <1>0, <2>2, <2>3, <2>5 DEF TypeOK
  <2>7. OneId' /\ TimerHasCalls' /\ Fresh'
    BY <1>0, <2>2, <2>3, <2>5 DEF OneId, TimerHasCalls, Fresh, TypeOK
  <2>8. WaitingExpects'
    <3> SUFFICES ASSUME NEW x \in DOMAIN callback_map_'
                 PROVE  expect_count'[callback_map_[x]] >= 1 /\ callback_map_[x] \notin ignored
      BY <2>3, <2>5 DEF WaitingExpects
    <3>1. callback_map_[x] \in Item /\ expect_count[callback_map_[x]] >= 1
      BY <1>0, <2>5 DEF WaitingExpects, TypeOK
    <3>2. CASE callback_map_[x] = i
      BY <1>0, <2>2, <2>3, <2>4, <2>5, <3>2 DEF TypeOK
    <3>3. CASE callback_map_[x] # i
      BY <1>0, <2>3, <2>5, <3>1, <3>3 DEF WaitingExpects, TypeOK
    <3> QED BY <3>2, <3>3
  <2>9. ASSUME NEW j \in Item
        PROVE  called'[j] + pending'[j] + TimerOwes(j)' + silenced'[j] + StillExpected(j)'
                 = IF j \in created' \ ignored' THEN expect[j] ELSE 0
    <3>1. CASE j = i
      <4>1. called[i] + pending[i] + TimerOwes(i) + silenced[i] + expect_count[i] = expect[i]
        BY <1>0, <2>2 DEF AnswersAccounted, StillExpected, Waiting
      <4>2. TimerOwes(i)' = TimerOwes(i) /\ TimerOwes(i) \in Nat
        BY <1>0, <2>3 DEF TimerOwes, TypeOK
      <4>3. StillExpected(i)' = expect_count[i] - 1
        BY <1>0, <2>2, <2>3, <2>5 DEF StillExpected, Waiting, TypeOK
      <4> QED BY <1>0, <2>2, <2>3, <3>1, <4>1, <4>2, <4>3 DEF TypeOK
    <3>2. CASE j # i
      BY <1>0, <2>2, <2>3, <2>5, <3>2
         DEF AnswersAccounted, TimerOwes, StillExpected, Waiting, TypeOK
    <3> QED BY <3>1, <3>2
  <2> QED BY <2>6, <2>7, <2>8, <2>9 DEF Inv, AnswersAccounted
<1>5. ASSUME NEW id \in DOMAIN callback_map_, callback_map_' = Erase(callback_map_, id),
             UNCHANGED items
      PROVE  /\ OneId' /\ WaitingExpects' /\ Fresh'
             /\ DOMAIN callback_map_' \subseteq Ids
             /\ callback_map_' \in [DOMAIN callback_map_' -> created']
             /\ created' \subseteq Item /\ ignored' \subseteq created'
             /\ expect_count' \in [Item -> Int] /\ timeout_sec' \in [Item -> Int]
             /\ \A j \in Item : StillExpected(j)' =
                    IF j = callback_map_[id] THEN 0 ELSE StillExpected(j)
             /\ StillExpected(callback_map_[id]) = expect_count[callback_map_[id]]
             /\ callback_map_[id] \in created \ ignored
             /\ expect_count[callback_map_[id]] \in Nat \ {0}
  <2>1. /\ DOMAIN callback_map_' = DOMAIN callback_map_ \ {id}
        /\ \A x \in DOMAIN callback_map_' : callback_map_'[x] = callback_map_[x]
        /\ Range(callback_map_') = Range(callback_map_) \ {callback_map_[id]}
    BY <1>0, <1>5, EraseOne
  <2>2. OneId' /\ WaitingExpects' /\ Fresh'
    BY <1>0, <1>5, <2>1 DEF OneId, WaitingExpects, Fresh, items
  <2>3. callback_map_' \in [DOMAIN callback_map_' -> created']
    BY <1>0, <1>5, <2>1 DEF TypeOK, items, Erase, Restrict
  <2>4. callback_map_[id] \in Range(callback_map_)
    BY <1>5 DEF Range
  <2>5. \A j \in Item : StillExpected(j)' =
            IF j = callback_map_[id] THEN 0 ELSE StillExpected(j)
    BY <1>5, <2>1 DEF StillExpected, Waiting, items
  <2>6. /\ callback_map_[id] \in created \ ignored
        /\ expect_count[callback_map_[id]] \in Nat \ {0}
    BY <1>0, <1>5 DEF TypeOK, WaitingExpects
  <2> QED BY <1>0, <1>5, <2>1, <2>2, <2>3, <2>4, <2>5, <2>6
          DEF TypeOK, items, StillExpected, Waiting
<1>6. ASSUME NEW id \in Ids, CancelWithCallback(id) \/ CancelSilently(id) PROVE Inv'
  <2>1. /\ id \in DOMAIN callback_map_ /\ callback_map_' = Erase(callback_map_, id)
        /\ UNCHANGED items /\ UNCHANGED <<msg_id_, called, timer, joined>>
    BY <1>6 DEF CancelWithCallback, CancelSilently
  <2>2. PICK i : i = callback_map_[id]
    OBVIOUS
  <2>3. \/ pending' = [pending EXCEPT ![i] = @ + expect_count[i]] /\ UNCHANGED silenced
        \/ silenced' = [silenced EXCEPT ![i] = @ + expect_count[i]] /\ UNCHANGED pending
    BY <1>6, <2>2 DEF CancelWithCallback, CancelSilently
  <2>4. /\ OneId' /\ WaitingExpects' /\ Fresh'
        /\ i \in created \ ignored /\ i \in Item /\ expect_count[i] \in Nat \ {0}
        /\ StillExpected(i) = expect_count[i] /\ StillExpected(i)' = 0
        /\ \A j \in Item \ {i} : StillExpected(j)' = StillExpected(j)
    BY <1>0, <1>5, <2>1, <2>2 DEF TypeOK
  <2>5. TypeOK'
    <3>1. pending' \in [Item -> Nat] /\ silenced' \in [Item -> Nat]
      BY <1>0, <2>3, <2>4 DEF TypeOK
    <3>2. /\ DOMAIN callback_map_' \subseteq Ids
          /\ callback_map_' \in [DOMAIN callback_map_' -> created']
      BY <1>5, <2>1
    <3> QED BY <1>0, <2>1, <3>1, <3>2 DEF TypeOK, items, timer
  <2>6. TimerHasCalls' /\ \A j \in Item : TimerOwes(j)' = TimerOwes(j) /\ TimerOwes(j) \in Nat
    BY <1>0, <2>1 DEF TimerHasCalls, TimerOwes, timer, TypeOK
  <2>7. ASSUME NEW j \in Item
        PROVE  called'[j] + pending'[j] + TimerOwes(j)' + silenced'[j] + StillExpected(j)'
                 = IF j \in created' \ ignored' THEN expect[j] ELSE 0
    <3>1. called[j] + pending[j] + TimerOwes(j) + silenced[j] + StillExpected(j)
                 = IF j \in created \ ignored THEN expect[j] ELSE 0
      BY <1>0 DEF AnswersAccounted
    <3>2. CASE j = i
      BY <1>0, <2>1, <2>3, <2>4, <2>6, <3>1, <3>2 DEF TypeOK, items
    <3>3. CASE j # i
      BY <1>0, <2>1, <2>3, <2>4, <2>6, <3>1, <3>3 DEF TypeOK, items
    <3> QED BY <3>2, <3>3
  <2> QED BY <2>4, <2>5, <2>6, <2>7 DEF Inv, AnswersAccounted
<1>7. CASE TimeoutCheck
  <2>1. TypeOK'
    BY <1>0, <1>7 DEF TimeoutCheck, TypeOK
  <2>2. OneId' /\ WaitingExpects' /\ TimerHasCalls' /\ Fresh'
    BY <1>0, <1>7 DEF TimeoutCheck, OneId, WaitingExpects, TimerHasCalls, Fresh
  <2>3. AnswersAccounted'
    BY <1>0, <1>7 DEF TimeoutCheck, AnswersAccounted, TimerOwes, StillExpected, Waiting
  <2> QED BY <2>1, <2>2, <2>3 DEF Inv
<1>8. ASSUME NEW id \in Ids, Timeout(id) PROVE Inv'
  <2>0. /\ timer_item = NoItem /\ message_vec' = message_vec \ {id}
        /\ UNCHANGED items /\ UNCHANGED <<msg_id_, pending, called, silenced, joined>>
    BY <1>8 DEF Timeout
  <2>1. CASE id \in DOMAIN callback_map_
    <3>1. PICK i : i = callback_map_[id]
      OBVIOUS
    <3>2. /\ timer_item' = i /\ timer_left' = expect_count[i]
          /\ callback_map_' = Erase(callback_map_, id)
      BY <1>8, <2>1, <3>1 DEF Timeout
    <3>3. /\ OneId' /\ WaitingExpects' /\ Fresh'
          /\ i \in created \ ignored /\ i \in Item /\ expect_count[i] \in Nat \ {0}
          /\ StillExpected(i) = expect_count[i] /\ StillExpected(i)' = 0
          /\ \A j \in Item \ {i} : StillExpected(j)' = StillExpected(j)
      BY <1>0, <1>5, <2>0, <2>1, <3>1, <3>2 DEF TypeOK
    <3>4. TypeOK'
      BY <1>0, <1>5, <2>0, <2>1, <3>2, <3>3 DEF TypeOK, items
    <3>5. /\ TimerHasCalls'
          /\ \A j \in Item : TimerOwes(j)' = (IF j = i THEN expect_count[i] ELSE 0)
                             /\ TimerOwes(j) = 0
      BY <2>0, <3>2, <3>3 DEF TimerHasCalls, TimerOwes
    <3>6. ASSUME NEW j \in Item
          PROVE  called'[j] + pending'[j] + TimerOwes(j)' + silenced'[j] + StillExpected(j)'
                   = IF j \in created' \ ignored' THEN expect[j] ELSE 0
      <4>1. called[j] + pending[j] + TimerOwes(j) + silenced[j] + StillExpected(j)
                   = IF j \in created \ ignored THEN expect[j] ELSE 0
        BY <1>0 DEF AnswersAccounted
      <4>2. CASE j = i
        BY <1>0, <2>0, <3>3, <3>5, <4>1, <4>2 DEF TypeOK, items
      <4>3. CASE j # i
        BY <1>0, <2>0, <3>3, <3>5, <4>1, <4>3 DEF TypeOK, items
      <4> QED BY <4>2, <4>3
    <3> QED BY <3>3, <3>4, <3>5, <3>6 DEF Inv, AnswersAccounted
  <2>2. CASE id \notin DOMAIN callback_map_
    <3>1. UNCHANGED <<callback_map_, timer_item, timer_left>>
      BY <1>8, <2>2 DEF Timeout
    <3> QED BY <1>0, <2>0, <3>1
            DEF Inv, TypeOK, OneId, WaitingExpects, TimerHasCalls, Fresh,
                AnswersAccounted, TimerOwes, StillExpected, Waiting, items
  <2> QED BY <2>1, <2>2
<1>9. CASE TimerCall
  <2>1. /\ timer_item \in created /\ timer_item \in Item /\ timer_left \in Nat \ {0}
        /\ called' = [called EXCEPT ![timer_item] = @ + 1]
        /\ timer_left' = timer_left - 1
        /\ timer_item' = IF timer_left - 1 <= 0 THEN NoItem ELSE timer_item
        /\ UNCHANGED items
        /\ UNCHANGED <<msg_id_, callback_map_, pending, silenced, message_vec, joined>>
    BY <1>0, <1>9 DEF TimerCall, TypeOK, TimerHasCalls
  <2>2. TypeOK'
    BY <1>0, <2>1 DEF TypeOK, items
  <2>3. OneId' /\ WaitingExpects' /\ TimerHasCalls' /\ Fresh'
    BY <1>0, <2>1 DEF OneId, WaitingExpects, TimerHasCalls, Fresh, items
  <2>4. ASSUME NEW j \in Item
        PROVE  called'[j] + pending'[j] + TimerOwes(j)' + silenced'[j] + StillExpected(j)'
                 = IF j \in created' \ ignored' THEN expect[j] ELSE 0
    <3>1. called[j] + pending[j] + TimerOwes(j) + silenced[j] + StillExpected(j)
                 = IF j \in created \ ignored THEN expect[j] ELSE 0
      BY <1>0 DEF AnswersAccounted
    <3>2. StillExpected(j)' = StillExpected(j) /\ StillExpected(j) \in Int
      BY <1>0, <2>1 DEF StillExpected, Waiting, items, TypeOK
    <3>3. CASE j = timer_item
      <4>1. TimerOwes(j) = timer_left /\ TimerOwes(j)' = timer_left - 1
        BY <2>1, <3>3 DEF TimerOwes
      <4> QED BY <1>0, <2>1, <3>1, <3>2, <3>3, <4>1 DEF TypeOK, items
    <3>4. CASE j # timer_item
      <4>1. TimerOwes(j) = 0 /\ TimerOwes(j)' = 0
        BY <2>1, <3>4 DEF TimerOwes
      <4> QED BY <1>0, <2>1, <3>1, <3>2, <3>4, <4>1 DEF TypeOK, items
    <3> QED BY <3>3, <3>4
  <2> QED BY <2>2, <2>3, <2>4 DEF Inv, AnswersAccounted
<1>10. CASE Join
  <2>1. /\ callback_map_' = [x \in {} |-> NoItem]
        /\ silenced' = [i \in Item |-> IF i \in Range(callback_map_)
                                       THEN silenced[i] + expect_count[i] ELSE silenced[i]]
        /\ UNCHANGED items /\ UNCHANGED timer /\ UNCHANGED <<msg_id_, pending, called>>
        /\ joined' = TRUE
    BY <1>10 DEF Join
  <2>2. \A i \in Range(callback_map_) : expect_count[i] \in Nat
    BY <1>0 DEF Range, WaitingExpects, TypeOK
  <2>3. Range(callback_map_') = {} /\ DOMAIN callback_map_' = {}
    BY <2>1 DEF Range
  <2>4. TypeOK'
    BY <1>0, <2>1, <2>2, <2>3 DEF TypeOK, items, timer
  <2>5. OneId' /\ WaitingExpects' /\ TimerHasCalls' /\ Fresh'
    BY <1>0, <2>1, <2>3 DEF OneId, WaitingExpects, TimerHasCalls, Fresh, items, timer
  <2>6. AnswersAccounted'
    BY <1>0, <2>1, <2>2, <2>3
       DEF AnswersAccounted, TimerOwes, StillExpected, Waiting, TypeOK, items, timer
  <2> QED BY <2>4, <2>5, <2>6 DEF Inv
<1> QED BY <1>1, <1>2, <1>3, <1>4, <1>6, <1>7, <1>8, <1>9, <1>10 DEF Next

(* The manager starts in a state of the invariant.                         *)
LEMMA InvInit == Init => Inv
<1> SUFFICES ASSUME Init PROVE Inv
  OBVIOUS
<1> USE CallbackAssumption
<1>1. TypeOK
  <2>1. expect \in [Item -> Int] /\ timeout \in [Item -> Int]
    <3>1. \A i \in Item : expect[i] \in Int /\ timeout[i] \in Int
      OBVIOUS
    <3> QED BY <3>1
  <2>2. callback_map_ \in [DOMAIN callback_map_ -> created] /\ DOMAIN callback_map_ = {}
    BY DEF Init
  <2> QED BY <2>1, <2>2 DEF Init, TypeOK, Ids
<1>2. OneId /\ WaitingExpects /\ TimerHasCalls /\ Fresh
  BY DEF Init, OneId, WaitingExpects, TimerHasCalls, Fresh
<1>3. AnswersAccounted
  BY DEF Init, AnswersAccounted, TimerOwes, StillExpected, Waiting, Range
<1> QED BY <1>1, <1>2, <1>3 DEF Inv

(* Every state of the manager is well typed, and every expected answer is  *)
(* accounted for exactly once, whatever answers, cancels and timeouts race *)
(* for an item: the calls, the calls on the way, the answers given up and  *)
(* those still expected add up to what Add was told.                       *)
THEOREM CallbacksExactlyOnce == Spec => []AnswersAccounted
<1>1. Inv => AnswersAccounted
  BY DEF Inv
<1> QED BY <1>1, InvInit, InvStep, PTL DEF Spec

CalledAtMostExpected ==
    \A i \in Item : called[i] + pending[i] + TimerOwes(i) <= expect[i]

(* No callback is called more often than Add was told to expect answers,   *)
(* however late answers, Cancel and the timer's Timeout interleave.        *)
THEOREM CallbacksNeverTooMany == Spec => []CalledAtMostExpected
<1>1. Inv => CalledAtMostExpected
  <2> SUFFICES ASSUME Inv, NEW i \in Item
               PROVE  called[i] + pending[i] + TimerOwes(i) <= expect[i]
    BY DEF CalledAtMostExpected
  <2> USE CallbackAssumption
  <2>1. called[i] + pending[i] + TimerOwes(i) + silenced[i] + StillExpected(i)
            = IF i \in created \ ignored THEN expect[i] ELSE 0
    BY DEF Inv, AnswersAccounted
  <2>2. /\ called[i] \in Nat /\ pending[i] \in Nat /\ silenced[i] \in Nat
        /\ TimerOwes(i) \in Nat /\ expect[i] \in Nat
    BY DEF Inv, TypeOK, TimerOwes
  <2>3. StillExpected(i) \in Nat
    <3>1. CASE Waiting(i)
      <4>1. PICK x \in DOMAIN callback_map_ : callback_map_[x] = i
        BY <3>1 DEF Waiting, Range
      <4> QED BY <3>1, <4>1 DEF Inv, TypeOK, WaitingExpects, StillExpected
    <3>2. CASE ~Waiting(i)
      BY <3>2 DEF StillExpected
    <3> QED BY <3>1, <3>2
  <2> QED BY <2>1, <2>2, <2>3
<1> QED BY <1>1, InvInit, InvStep, PTL DEF Spec

(* The fields of the manager keep their types: only ids that were given    *)
(* out are waited for, and only items that were added wait or time out.    *)
THEOREM TypeCorrect == Spec => []TypeOK
<1>1. Inv => TypeOK
  BY DEF Inv
<1> QED BY <1>1, InvInit, InvStep, PTL DEF Spec

-----------------------------------------------------------------------------
(***************************************************************************)
(* TimesOutExpiredOnly.  TimeoutCheck collects ids under the lock; Timeout *)
(* looks them up again later, when the map may hold another item for the   *)
(* same id.  That it does not follows from how far back the counter        *)
(* reaches: an id in use is fewer messages old than there were messages,   *)
(* so MessageId does not come round to it before it has wrapped.           *)
(***************************************************************************)
Age(id) == IF id <= msg_id_ THEN msg_id_ - id ELSE msg_id_ - id + MessageIds

Unwrapped == Cardinality(created) <= MessageIds

IdsAreRecent ==
    Unwrapped => \A id \in message_vec \cup DOMAIN callback_map_ : Age(id) < Cardinality(created)

CollectedHaveExpired ==
    Unwrapped => \A id \in message_vec \cap DOMAIN callback_map_ :
                    timeout_sec[callback_map_[id]] <= 0

TimerInv == IsFiniteSet(created) /\ IdsAreRecent /\ CollectedHaveExpired

(* The counter goes up by one, and from the last id back to 0.             *)
LEMMA NextMessageId ==
    ASSUME msg_id_ \in Ids
    PROVE  MessageId = IF msg_id_ + 1 = MessageIds THEN 0 ELSE msg_id_ + 1
BY CallbackAssumption DEF Ids, MessageId

(* While the counter has not wrapped, the id that MessageId gives out is   *)
(* neither in the map nor among the ids that the timer has collected, and  *)
(* the ids in use are one message older than before.                       *)
LEMMA FreshMessageId ==
    ASSUME TypeOK, TimerInv, NEW i \in Item, Add(i), Unwrapped'
    PROVE  /\ Unwrapped
           /\ Cardinality(created) \in Nat /\ Cardinality(created') = Cardinality(created) + 1
           /\ \A id \in message_vec \cup DOMAIN callback_map_ :
                 id # MessageId /\ Age(id)' = Age(id) + 1
           /\ \A id \in Ids : id = MessageId => Age(id)' = 0
<1> USE CallbackAssumption
<1>1. Cardinality(created) \in Nat /\ Cardinality(created') = Cardinality(created) + 1
  BY FS_CardinalityType, FS_AddElement DEF TimerInv, Add
<1>2. Unwrapped /\ Cardinality(created) < MessageIds
  BY <1>1 DEF Unwrapped
<1>3. msg_id_ \in Ids /\ msg_id_' = IF msg_id_ + 1 = MessageIds THEN 0 ELSE msg_id_ + 1
  BY NextMessageId DEF Add, TypeOK
<1>4. MessageId = msg_id_'
  BY DEF Add
<1>5. ASSUME NEW id \in message_vec \cup DOMAIN callback_map_
      PROVE  id # MessageId /\ Age(id)' = Age(id) + 1
  <2>1. id \in Ids /\ Age(id) < Cardinality(created)
    BY <1>2 DEF TypeOK, TimerInv, IdsAreRecent
  <2> QED BY <1>1, <1>2, <1>3, <1>4, <2>1 DEF Age, Ids
<1>6. ASSUME NEW id \in Ids, id = MessageId PROVE Age(id)' = 0
  BY <1>3, <1>4, <1>6 DEF Age, Ids
<1> QED BY <1>1, <1>2, <1>5, <1>6

(* A step that takes ids off the map and off the collected ones, and adds  *)
(* none, leaves what is in use recent and what is collected expired.       *)
LEMMA FewerIds ==
    ASSUME TimerInv, UNCHANGED <<msg_id_, created, timeout_sec>>,
           message_vec' \subseteq message_vec,
           DOMAIN callback_map_' \subseteq DOMAIN callback_map_,
           \A x \in DOMAIN callback_map_' : callback_map_'[x] = callback_map_[x]
    PROVE  TimerInv'
<1>1. IsFiniteSet(created)' /\ Unwrapped' = Unwrapped
  BY DEF TimerInv, Unwrapped
<1>2. IdsAreRecent'
  BY <1>1 DEF TimerInv, IdsAreRecent, Age
<1>3. CollectedHaveExpired'
  BY <1>1 DEF TimerInv, CollectedHaveExpired
<1> QED BY <1>1, <1>2, <1>3 DEF TimerInv

(* Every step of the manager keeps the ids in use recent and the collected *)
(* ones expired.                                                           *)
LEMMA TimerInvStep == TypeOK /\ TimerInv /\ [Next]_vars => TimerInv'
<1> SUFFICES ASSUME TypeOK, TimerInv, [Next]_vars PROVE TimerInv'
  OBVIOUS
<1> USE CallbackAssumption DEF items, timer
<1>0. ASSUME NEW id
      PROVE  /\ DOMAIN Erase(callback_map_, id) \subseteq DOMAIN callback_map_
             /\ \A x \in DOMAIN Erase(callback_map_, id) :
                    Erase(callback_map_, id)[x] = callback_map_[x]
  BY DEF Erase, Restrict
<1>1. CASE UNCHANGED vars
  BY <1>1, FewerIds DEF vars
<1>2. ASSUME NEW i \in Item, Add(i) PROVE TimerInv'
  <2>1. IsFiniteSet(created')
    BY <1>2, FS_AddElement DEF TimerInv, Add
  <2>2. CASE ~Unwrapped'
    BY <2>1, <2>2 DEF TimerInv, IdsAreRecent, CollectedHaveExpired
  <2>3. CASE Unwrapped'
    <3>1. /\ Unwrapped
          /\ Cardinality(created) \in Nat /\ Cardinality(created') = Cardinality(created) + 1
          /\ \A id \in message_vec \cup DOMAIN callback_map_ :
                id # MessageId /\ Age(id)' = Age(id) + 1
          /\ \A id \in Ids : id = MessageId => Age(id)' = 0
      BY <1>2, <2>3, FreshMessageId
    <3>2. /\ callback_map_' = [x \in DOMAIN callback_map_ \cup {MessageId} |->
                                  IF x = MessageId THEN i ELSE callback_map_[x]]
          /\ UNCHANGED <<message_vec, timeout_sec>>
      BY <1>2, <3>1 DEF Add
    <3>3. MessageId \in Ids
      BY DEF MessageId, Ids, TypeOK
    <3>4. ASSUME NEW id \in message_vec' \cup DOMAIN callback_map_'
          PROVE  Age(id)' < Cardinality(created')
      <4>1. CASE id = MessageId
        BY <3>1, <3>3, <4>1
      <4>2. CASE id # MessageId
        <5>1. id \in message_vec \cup DOMAIN callback_map_ /\ id \in Ids
          BY <3>2, <4>2 DEF TypeOK
        <5>2. Age(id) < Cardinality(created) /\ Age(id) \in Int
          BY <3>1, <5>1 DEF TimerInv, IdsAreRecent, Age, Ids, TypeOK
        <5> QED BY <3>1, <5>1, <5>2
      <4> QED BY <4>1, <4>2
    <3>5. ASSUME NEW id \in message_vec' \cap DOMAIN callback_map_'
          PROVE  timeout_sec'[callback_map_'[id]] <= 0
      <4>1. id # MessageId /\ id \in message_vec \cap DOMAIN callback_map_
        BY <3>1, <3>2
      <4> QED BY <3>1, <3>2, <4>1 DEF TimerInv, CollectedHaveExpired
    <3> QED BY <2>1, <3>4, <3>5 DEF TimerInv, IdsAreRecent, CollectedHaveExpired
  <2> QED BY <2>2, <2>3
<1>3. ASSUME NEW i \in Item, Call(i) PROVE TimerInv'
  BY <1>3, FewerIds DEF Call
<1>4. ASSUME NEW id \in Ids, Callback(id) \/ CancelWithCallback(id) \/ CancelSilently(id)
      PROVE  TimerInv'
  <2>1. callback_map_' \in {callback_map_, Erase(callback_map_, id)}
    BY <1>4 DEF Callback, CancelWithCallback, CancelSilently
  <2>2. UNCHANGED <<msg_id_, created, timeout_sec, message_vec>>
    BY <1>4 DEF Callback, CancelWithCallback, CancelSilently
  <2> QED BY <1>0, <2>1, <2>2, FewerIds
<1>5. CASE TimeoutCheck
  <2>1. /\ UNCHANGED <<msg_id_, created, callback_map_>>
        /\ timeout_sec' = [i \in Item |->
              IF i \in Range(callback_map_) THEN timeout_sec[i] - 1 ELSE timeout_sec[i]]
        /\ message_vec' = {id \in DOMAIN callback_map_ :
                                timeout_sec[callback_map_[id]] - 1 <= 0}
    BY <1>5 DEF TimeoutCheck
  <2>2. Unwrapped' = Unwrapped
    BY <2>1 DEF Unwrapped
  <2>3. IdsAreRecent'
    BY <2>1, <2>2 DEF TimerInv, IdsAreRecent, Age
  <2>4. ASSUME NEW id \in message_vec' PROVE timeout_sec'[callback_map_'[id]] <= 0
    <3>1. callback_map_[id] \in Item /\ callback_map_[id] \in Range(callback_map_)
      BY <2>1, <2>4 DEF TypeOK, Range
    <3> QED BY <2>1, <2>4, <3>1
  <2> QED BY <2>1, <2>3, <2>4 DEF TimerInv, CollectedHaveExpired
<1>6. ASSUME NEW id \in Ids, Timeout(id) PROVE TimerInv'
  <2>1. callback_map_' \in {callback_map_, Erase(callback_map_, id)}
    BY <1>6 DEF Timeout
  <2>2. UNCHANGED <<msg_id_, created, timeout_sec>> /\ message_vec' \subseteq message_vec
    BY <1>6 DEF Timeout
  <2> QED BY <1>0, <2>1, <2>2, FewerIds
<1>7. CASE TimerCall
  BY <1>7, FewerIds DEF TimerCall
<1>8. CASE Join
  <2>1. DOMAIN callback_map_' = {}
    BY <1>8 DEF Join
  <2> QED BY <1>8, <2>1, FewerIds DEF Join
<1> QED BY <1>1, <1>2, <1>3, <1>4, <1>5, <1>6, <1>7, <1>8 DEF Next

(* The timer times out only items whose time has run out, until the 2^32   *)
(* message ids are used up: between TimeoutCheck, which collects ids under *)
(* the lock, and Timeout, which looks one of them up again, no new message *)
(* can have taken the id.                                                  *)
THEOREM TimeoutsAreDue == Spec => TimesOutExpiredOnly
<1>1. Init => TypeOK /\ TimerInv
  <2> SUFFICES ASSUME Init PROVE TypeOK /\ TimerInv
    OBVIOUS
  <2>1. TypeOK
    BY InvInit DEF Inv
  <2>2. IsFiniteSet(created)
    BY FS_EmptySet DEF Init
  <2>3. message_vec = {} /\ DOMAIN callback_map_ = {}
    BY DEF Init
  <2> QED BY <2>1, <2>2, <2>3 DEF TimerInv, IdsAreRecent, CollectedHaveExpired
<1>2. Inv => TypeOK
  BY DEF Inv
<1>3. TypeOK /\ TimerInv /\ [Next]_vars =>
        [(timer_item = NoItem /\ timer_item' # NoItem /\ Cardinality(created) <= MessageIds)
            => timeout_sec[timer_item'] <= 0]_vars
  <2> SUFFICES ASSUME TypeOK, TimerInv, Next, timer_item = NoItem, timer_item' # NoItem,
                      Cardinality(created) <= MessageIds
               PROVE  timeout_sec[timer_item'] <= 0
    BY DEF vars, timer
  <2>1. PICK id \in Ids : Timeout(id)
    BY DEF Next, Add, Call, Callback, CancelWithCallback, CancelSilently, TimeoutCheck,
           TimerCall, Join, timer
  <2>2. id \in message_vec \cap DOMAIN callback_map_ /\ timer_item' = callback_map_[id]
    BY <2>1 DEF Timeout
  <2> QED BY <2>2 DEF TimerInv, CollectedHaveExpired, Unwrapped
<1> QED BY <1>1, <1>2, <1>3, InvInit, InvStep, TimerInvStep, PTL DEF Spec, TimesOutExpiredOnly

-----------------------------------------------------------------------------
(***************************************************************************)
(* The refinement.  Per item: what Callback, Cancel, Timeout and Join take *)
(* off the map is what becomes due or is given up in the ledger.           *)
(***************************************************************************)
Missing == [i \in Item |-> StillExpected(i)]
Due == [i \in Item |-> pending[i] + TimerOwes(i)]

(* The ledger of a manager, in terms of the two functions above.           *)
LEMMA LedgerIs ==
    /\ AL!ledger = <<created \ ignored, Missing, Due, called>>
    /\ AL!ledger' = <<(created \ ignored)', Missing', Due', called'>>
BY DEF AL!ledger, Missing, Due

(* An item that waits has answers missing, one that does not has none.     *)
LEMMA MissingTypes ==
    ASSUME Inv
    PROVE  /\ Missing \in [Item -> Nat] /\ Due \in [Item -> Nat]
           /\ \A x \in DOMAIN callback_map_ :
                 /\ callback_map_[x] \in Item /\ Waiting(callback_map_[x])
                 /\ Missing[callback_map_[x]] = expect_count[callback_map_[x]]
                 /\ expect_count[callback_map_[x]] \in Nat \ {0}
<1>1. \A x \in DOMAIN callback_map_ :
         /\ callback_map_[x] \in Item /\ Waiting(callback_map_[x])
         /\ expect_count[callback_map_[x]] \in Nat \ {0}
  BY DEF Inv, TypeOK, WaitingExpects, Waiting, Range
<1>2. \A i \in Item : StillExpected(i) \in Nat
  <2> SUFFICES ASSUME NEW i \in Item, Waiting(i) PROVE expect_count[i] \in Nat
    BY DEF StillExpected
  <2>1. PICK x \in DOMAIN callback_map_ : callback_map_[x] = i
    BY DEF Waiting, Range
  <2> QED BY <1>1, <2>1
<1>3. \A i \in Item : pending[i] + TimerOwes(i) \in Nat
  BY DEF Inv, TypeOK, TimerOwes
<1> QED BY <1>1, <1>2, <1>3 DEF Missing, Due, StillExpected

(* What is left when an id is erased: the other items wait as before.      *)
LEMMA MissingAfterErase ==
    ASSUME Inv, NEW id \in DOMAIN callback_map_,
           callback_map_' = Erase(callback_map_, id),
           \A j \in Item : j # callback_map_[id] => expect_count'[j] = expect_count[j]
    PROVE  Missing' = [Missing EXCEPT ![callback_map_[id]] = 0]
<1>1. Range(callback_map_') = Range(callback_map_) \ {callback_map_[id]}
  BY EraseOne DEF Inv
<1>2. \A j \in Item : StillExpected(j)' = IF j = callback_map_[id] THEN 0 ELSE StillExpected(j)
  BY <1>1 DEF StillExpected, Waiting
<1>3. callback_map_[id] \in Item
  BY MissingTypes
<1> QED BY <1>2, <1>3 DEF Missing

(* Add: an item whose id is free enters the ledger, with all its answers   *)
(* missing; one whose id is taken does not.                                *)
LEMMA AddIsAccept ==
    ASSUME Inv, NEW i \in Item, Add(i)
    PROVE  AL!Accept(i) \/ UNCHANGED AL!ledger
<1> USE CallbackAssumption
<1>1. /\ i \notin created /\ created' = created \cup {i}
      /\ UNCHANGED <<expect_count, pending, called, timer_item, timer_left>>
      /\ ignored \subseteq created /\ created \subseteq Item
  BY DEF Add, timer, Inv, TypeOK
<1>2. Due' = Due
  BY <1>1 DEF Due, TimerOwes
<1>3. CASE MessageId \in DOMAIN callback_map_
  <2>1. callback_map_' = callback_map_ /\ (created \ ignored)' = created \ ignored
    BY <1>1, <1>3 DEF Add
  <2>2. Missing' = Missing
    BY <1>1, <2>1 DEF Missing, StillExpected, Waiting
  <2> QED BY <1>1, <1>2, <2>1, <2>2, LedgerIs
<1>4. CASE MessageId \notin DOMAIN callback_map_
  <2>1. /\ DOMAIN callback_map_' = DOMAIN callback_map_ \cup {MessageId}
        /\ \A x \in DOMAIN callback_map_' :
              callback_map_'[x] = IF x = MessageId THEN i ELSE callback_map_[x]
        /\ ignored' = ignored
    BY <1>4 DEF Add
  <2>2. Range(callback_map_') = Range(callback_map_) \cup {i}
    BY <1>4, <2>1 DEF Range
  <2>3. \A j \in Item : StillExpected(j)' = IF j = i THEN expect[i] ELSE StillExpected(j)
    <3>1. expect_count[i] = expect[i]
      BY <1>1 DEF Inv, Fresh
    <3> QED BY <1>1, <2>2, <3>1 DEF StillExpected, Waiting
  <2>4. Missing' = [Missing EXCEPT ![i] = expect[i]]
    BY <2>3 DEF Missing
  <2>5. i \notin created \ ignored /\ (created \ ignored)' = (created \ ignored) \cup {i}
    BY <1>1, <2>1
  <2> QED BY <1>1, <1>2, <2>4, <2>5 DEF AL!Accept, Missing, Due
<1> QED BY <1>3, <1>4

(* Callback: one answer less is missing, one call more is due.             *)
LEMMA CallbackIsAnswered ==
    ASSUME Inv, NEW id \in Ids, Callback(id), NEW i \in Item, i = callback_map_[id]
    PROVE  AL!Answered(i)
<1>1. /\ id \in DOMAIN callback_map_
      /\ expect_count' = [expect_count EXCEPT ![i] = @ - 1]
      /\ callback_map_' = IF expect_count[i] - 1 <= 0
                          THEN Erase(callback_map_, id) ELSE callback_map_
      /\ pending' = [pending EXCEPT ![i] = @ + 1]
      /\ UNCHANGED <<created, ignored, called, timer_item, timer_left>>
  BY DEF Callback, timer
<1>2. /\ i \in Item /\ Waiting(i) /\ Missing[i] = expect_count[i]
      /\ expect_count[i] \in Nat \ {0}
      /\ Missing \in [Item -> Nat] /\ Due \in [Item -> Nat]
  BY <1>1, MissingTypes
<1>3. expect_count \in [Item -> Int] /\ pending \in [Item -> Nat] /\ timer_left \in Nat
  BY DEF Inv, TypeOK
<1>4. Missing' = [Missing EXCEPT ![i] = Missing[i] - 1]
  <2>1. CASE expect_count[i] - 1 <= 0
    <3>1. Missing' = [Missing EXCEPT ![i] = 0]
      BY <1>1, <1>2, <1>3, <2>1, MissingAfterErase
    <3>2. Missing[i] - 1 = 0
      BY <1>2, <2>1
    <3> QED BY <3>1, <3>2
  <2>2. CASE ~(expect_count[i] - 1 <= 0)
    <3>1. callback_map_' = callback_map_
      BY <1>1, <2>2
    <3>2. \A j \in Item : StillExpected(j)' = IF j = i THEN StillExpected(j) - 1 ELSE StillExpected(j)
      BY <1>1, <1>2, <1>3, <3>1 DEF StillExpected, Waiting
    <3> QED BY <1>2, <3>2 DEF Missing
  <2> QED BY <2>1, <2>2
<1>5. Due' = [Due EXCEPT ![i] = Due[i] + 1]
  <2>1. \A j \in Item : pending'[j] + TimerOwes(j)'
            = IF j = i THEN pending[j] + TimerOwes(j) + 1 ELSE pending[j] + TimerOwes(j)
    BY <1>1, <1>2, <1>3 DEF TimerOwes
  <2> QED BY <1>2, <2>1 DEF Due
<1> QED BY <1>1, <1>2, <1>4, <1>5 DEF AL!Answered, Missing, Due

(* Cancel(id, 0): the answers still missing become due.                    *)
LEMMA CancelIsExpired ==
    ASSUME Inv, NEW id \in Ids, CancelWithCallback(id), NEW i \in Item, i = callback_map_[id]
    PROVE  AL!Expired(i)
<1>1. /\ id \in DOMAIN callback_map_
      /\ pending' = [pending EXCEPT ![i] = @ + expect_count[i]]
      /\ callback_map_' = Erase(callback_map_, id)
      /\ UNCHANGED <<expect_count, created, ignored, called, timer_item, timer_left>>
  BY DEF CancelWithCallback, items, timer
<1>2. /\ i \in Item /\ Missing[i] = expect_count[i] /\ expect_count[i] \in Nat \ {0}
      /\ Missing \in [Item -> Nat] /\ Due \in [Item -> Nat]
  BY <1>1, MissingTypes
<1>3. Missing' = [Missing EXCEPT ![i] = 0]
  BY <1>1, MissingAfterErase
<1>4. Due' = [Due EXCEPT ![i] = Due[i] + Missing[i]]
  <2>1. pending \in [Item -> Nat] /\ timer_left \in Nat
    BY DEF Inv, TypeOK
  <2>2. \A j \in Item : pending'[j] + TimerOwes(j)'
            = IF j = i THEN pending[j] + TimerOwes(j) + Missing[j] ELSE pending[j] + TimerOwes(j)
    BY <1>1, <1>2, <2>1 DEF TimerOwes
  <2> QED BY <1>2, <2>2 DEF Due
<1> QED BY <1>1, <1>2, <1>3, <1>4 DEF AL!Expired, Missing, Due

(* Timeout does the same with the calls of the timer thread, for whatever  *)
(* item has the id by then, or finds nothing.                              *)
LEMMA TimeoutIsExpired ==
    ASSUME Inv, NEW id \in Ids, Timeout(id)
    PROVE  (\E i \in Item : AL!Expired(i)) \/ UNCHANGED AL!ledger
<1>1. timer_item = NoItem /\ UNCHANGED <<expect_count, created, ignored, pending, called>>
  BY DEF Timeout, items
<1>2. CASE id \in DOMAIN callback_map_
  <2>0. PICK i \in Item : i = callback_map_[id]
    BY <1>2, MissingTypes
  <2>1. /\ timer_item' = i /\ timer_left' = expect_count[i]
        /\ callback_map_' = Erase(callback_map_, id)
    BY <1>2, <2>0 DEF Timeout
  <2>2. /\ i \in Item /\ Missing[i] = expect_count[i] /\ expect_count[i] \in Nat \ {0}
        /\ Missing \in [Item -> Nat] /\ Due \in [Item -> Nat]
    BY <1>2, <2>0, MissingTypes
  <2>3. Missing' = [Missing EXCEPT ![i] = 0]
    BY <1>1, <1>2, <2>0, <2>1, MissingAfterErase
  <2>4. Due' = [Due EXCEPT ![i] = Due[i] + Missing[i]]
    <3>1. pending \in [Item -> Nat] /\ NoItem \notin Item
      BY CallbackAssumption DEF Inv, TypeOK
    <3>2. \A j \in Item : pending'[j] + TimerOwes(j)'
              = IF j = i THEN pending[j] + TimerOwes(j) + Missing[j] ELSE pending[j] + TimerOwes(j)
      BY <1>1, <2>1, <2>2, <3>1 DEF TimerOwes
    <3> QED BY <2>2, <3>2 DEF Due
  <2>5. AL!Expired(i)
    BY <1>1, <2>2, <2>3, <2>4 DEF AL!Expired, Missing, Due
  <2> QED BY <2>5
<1>3. CASE id \notin DOMAIN callback_map_
  <2>1. UNCHANGED <<callback_map_, timer_item, timer_left>>
    BY <1>3 DEF Timeout
  <2>2. Missing' = Missing /\ Due' = Due
    BY <1>1, <2>1 DEF Missing, StillExpected, Waiting, Due, TimerOwes
  <2> QED BY <1>1, <2>2, LedgerIs
<1> QED BY <1>2, <1>3

(* Cancel(id, 1) and Join: answers are given up.                           *)
LEMMA SilenceIsGivenUp ==
    ASSUME Inv, (\E id \in Ids : CancelSilently(id)) \/ Join
    PROVE  \E rs \in SUBSET Item : AL!GivenUp(rs)
<1>1. ASSUME NEW id \in Ids, CancelSilently(id) PROVE \E rs \in SUBSET Item : AL!GivenUp(rs)
  <2>1. /\ id \in DOMAIN callback_map_ /\ callback_map_' = Erase(callback_map_, id)
        /\ UNCHANGED <<expect_count, created, ignored, pending, called, timer_item, timer_left>>
    BY <1>1 DEF CancelSilently, items, timer
  <2>2. Due' = Due
    BY <2>1 DEF Due, TimerOwes
  <2>3. callback_map_[id] \in Item /\ Missing \in [Item -> Nat]
    BY <2>1, MissingTypes
  <2>4. Missing' = [Missing EXCEPT ![callback_map_[id]] = 0]
    BY <2>1, MissingAfterErase
  <2>5. Missing' = [r \in Item |-> IF r \in {callback_map_[id]} THEN 0 ELSE Missing[r]]
    BY <2>3, <2>4
  <2>6. AL!GivenUp({callback_map_[id]})
    BY <2>1, <2>2, <2>5 DEF AL!GivenUp, Missing, Due
  <2> QED BY <2>3, <2>6
<1>2. CASE Join
  <2>1. /\ callback_map_' = [x \in {} |-> NoItem]
        /\ UNCHANGED <<expect_count, created, ignored, pending, called, timer_item, timer_left>>
    BY <1>2 DEF Join, items, timer
  <2>2. Due' = Due
    BY <2>1 DEF Due, TimerOwes
  <2>3. \A j \in Item : StillExpected(j)' = 0
    BY <2>1 DEF StillExpected, Waiting, Range
  <2>4. Missing' = [r \in Item |-> IF r \in Item THEN 0 ELSE Missing[r]]
    BY <2>3 DEF Missing
  <2>5. AL!GivenUp(Item)
    BY <2>1, <2>2, <2>4 DEF AL!GivenUp, Missing, Due
  <2> QED BY <2>5
<1> QED BY <1>1, <1>2

(* A call, by the thread that took the item or by the timer thread.        *)
LEMMA CallIsMade ==
    ASSUME Inv, NEW i \in Item, Call(i) \/ (TimerCall /\ timer_item = i)
    PROVE  AL!Made(i)
<1>1. /\ pending \in [Item -> Nat] /\ called \in [Item -> Nat] /\ timer_left \in Nat
      /\ timer_item # NoItem => timer_left >= 1
      /\ NoItem \notin Item
  BY CallbackAssumption DEF Inv, TypeOK, TimerHasCalls
<1>2. Due \in [Item -> Nat]
  BY MissingTypes
<1>3. /\ UNCHANGED <<callback_map_, expect_count, created, ignored>>
      /\ called' = [called EXCEPT ![i] = @ + 1]
  BY DEF Call, TimerCall, items
<1>4. Missing' = Missing
  BY <1>3 DEF Missing, StillExpected, Waiting
<1>5. /\ Due[i] > 0
      /\ \A j \in Item : pending'[j] + TimerOwes(j)'
            = IF j = i THEN (pending[j] + TimerOwes(j)) - 1 ELSE pending[j] + TimerOwes(j)
  <2>1. CASE Call(i)
    BY <1>1, <2>1 DEF Call, timer, TimerOwes, Due
  <2>2. CASE TimerCall /\ timer_item = i
    <3>1. /\ pending' = pending /\ timer_left' = timer_left - 1
          /\ timer_item' = IF timer_left - 1 <= 0 THEN NoItem ELSE timer_item
      BY <2>2 DEF TimerCall
    <3> QED BY <1>1, <2>2, <3>1 DEF TimerOwes, Due
  <2> QED BY <2>1, <2>2
<1>6. Due' = [Due EXCEPT ![i] = Due[i] - 1]
  BY <1>2, <1>5 DEF Due
<1> QED BY <1>3, <1>4, <1>5, <1>6 DEF AL!Made, Missing, Due

(* CallbackManager implements its abstract specification, for every number *)
(* of items, answers and message ids: the ids that wrap, the list that     *)
(* TimeoutCheck keeps after it has unlocked, and the calls made outside    *)
(* the lock cannot be seen in what becomes of the answers.                 *)
THEOREM ManagerImplementsLedger == Spec => ImplementsAnswerLedger
<1>1. Init => AL!Init
  <2> SUFFICES ASSUME Init PROVE AL!Init
    OBVIOUS
  <2>1. \A i \in Item : StillExpected(i) = 0 /\ pending[i] + TimerOwes(i) = 0
    BY CallbackAssumption DEF Init, StillExpected, Waiting, Range, TimerOwes
  <2> QED BY <2>1 DEF Init, AL!Init
<1>2. Inv /\ [Next]_vars => [AL!Next]_(AL!ledger)
  <2> SUFFICES ASSUME Inv, [Next]_vars PROVE AL!Next \/ UNCHANGED AL!ledger
    OBVIOUS
  <2>1. \A x \in DOMAIN callback_map_ : callback_map_[x] \in Item
    BY MissingTypes
  <2>2. ASSUME NEW i \in Item, Add(i) PROVE AL!Next \/ UNCHANGED AL!ledger
    BY <2>2, AddIsAccept DEF AL!Next
  <2>3. ASSUME NEW id \in Ids, Callback(id) PROVE AL!Next
    <3>1. PICK i \in Item : i = callback_map_[id]
      BY <2>1, <2>3 DEF Callback
    <3>2. AL!Answered(i)
      BY <2>3, <3>1, CallbackIsAnswered
    <3> QED BY <3>1, <3>2 DEF AL!Next
  <2>4. ASSUME NEW id \in Ids, CancelWithCallback(id) PROVE AL!Next
    <3>1. PICK i \in Item : i = callback_map_[id]
      BY <2>1, <2>4 DEF CancelWithCallback
    <3>2. AL!Expired(i)
      BY <2>4, <3>1, CancelIsExpired
    <3> QED BY <3>1, <3>2 DEF AL!Next
  <2>5. ASSUME NEW id \in Ids, Timeout(id) PROVE AL!Next \/ UNCHANGED AL!ledger
    <3>1. (\E i \in Item : AL!Expired(i)) \/ UNCHANGED AL!ledger
      BY <2>5, TimeoutIsExpired
    <3> QED BY <3>1 DEF AL!Next
  <2>6. CASE (\E id \in Ids : CancelSilently(id)) \/ Join
    BY <2>6, SilenceIsGivenUp DEF AL!Next
  <2>7. ASSUME NEW i \in Item, Call(i) PROVE AL!Next
    BY <2>7, CallIsMade DEF AL!Next
  <2>8. CASE TimerCall
    <3>1. timer_item \in Item
      BY <2>8 DEF TimerCall, Inv, TypeOK
    <3> QED BY <2>8, <3>1, CallIsMade DEF AL!Next
  <2>9. CASE TimeoutCheck \/ UNCHANGED vars
    <3>1. UNCHANGED <<callback_map_, expect_count, created, ignored, pending, called,
                      timer_item, timer_left>>
      BY <2>9 DEF TimeoutCheck, vars, items, timer
    <3>2. Missing' = Missing /\ Due' = Due
      BY <3>1 DEF Missing, StillExpected, Waiting, Due, TimerOwes
    <3> QED BY <3>1, <3>2, LedgerIs
  <2> QED BY <2>2, <2>3, <2>4, <2>5, <2>6, <2>7, <2>8, <2>9 DEF Next
<1>3. Spec => []Inv
  BY InvInit, InvStep, PTL DEF Spec
<1> QED BY <1>1, <1>2, <1>3, PTL DEF Spec, ImplementsAnswerLedger, AL!Spec
=============================================================================
