----------------------------- MODULE AcquisitionProofs -----------------------------
(* What the parts documents come in by promise, for any tasks, faults and  *)
(* times.                                                                  *)
EXTENDS ChunkingProofs

-----------------------------------------------------------------------------
(* Products with the rate.                                                 *)
LEMMA RateProducts ==
  ASSUME NEW a \in Nat, NEW b \in Nat
  PROVE  /\ Rate * a \in Nat /\ Rate * 0 = 0
         /\ Rate * (a + 1) = Rate * a + Rate
         /\ a <= b => Rate * a <= Rate * b
<1>1. Rate \in Nat
  BY LimiterAssumption
<1>2. Rate * a \in Nat /\ Rate * 0 = 0 /\ Rate * (a + 1) = Rate * a + Rate
  BY <1>1
<1>3. ASSUME a <= b PROVE Rate * a <= Rate * b
  <2>1. PICK c \in Nat : b = a + c
    BY <1>3
  <2>2. Rate * (a + c) = Rate * a + Rate * c /\ Rate * c \in Nat
    BY <1>1
  <2> QED BY <1>2, <2>1, <2>2
<1> QED BY <1>2, <1>3

LEMMA LimiterNumbers == Rate \in Nat /\ Capacity \in Nat /\ MaxTime \in Nat
  BY LimiterAssumption

(* Between two calls the bucket is as full as the script will find it: one *)
(* that Redis dropped would be full.                                       *)
LEMMA TokensAvailable ==
  ASSUME Lim!TypeOK
  PROVE  Lim!Tokens = Lim!Available /\ Lim!Available \in 0 .. Capacity
<1> DEFINE age == clock - bucket.updated
           gained == Rate * age
<1>1. age \in Nat /\ bucket.tokens \in 0 .. Capacity
  BY LimiterAssumption DEF Lim!TypeOK
<1>2. gained \in Nat /\ (age >= Ttl => gained >= Capacity)
  BY <1>1, LimiterAssumption, RateProducts
<1>3. /\ Lim!Tokens = IF age >= Ttl THEN Capacity ELSE Lim!Least(Capacity, bucket.tokens + gained)
      /\ Lim!Available = Lim!Least(Capacity, bucket.tokens + gained)
  BY DEF Lim!Tokens, Lim!Available
<1> HIDE DEF age, gained
<1> QED BY <1>1, <1>2, <1>3, LimiterAssumption DEF Lim!Least

LEMMA LimiterInit == Lim!Init => Lim!IInv
<1> SUFFICES ASSUME Lim!Init PROVE Lim!IInv
  OBVIOUS
<1>1. Rate * 0 = 0 /\ Rate * MaxTime \in Nat
  BY RateProducts, LimiterAssumption
<1>2. Lim!TypeOK
  BY <1>1, LimiterAssumption DEF Lim!Init, Lim!TypeOK, Lim!Points
<1>3. Lim!Available \in 0 .. Capacity
  BY <1>2, TokensAvailable
<1>4. Lim!Allowance = Capacity
  BY <1>1, LimiterAssumption DEF Lim!Init, Lim!Allowance
<1> QED BY <1>2, <1>3, <1>4, LimiterAssumption DEF Lim!IInv, Lim!Init

(* A step that leaves the time, the bucket and the count.                  *)
LEMMA LimiterRest ==
  ASSUME Lim!IInv, UNCHANGED <<clock, strict, bucket, mark, granted>>,
         up' \in BOOLEAN, request' \in [Fetches -> Lim!Points], cooling' \in 0 .. MaxTime + CoolDown
  PROVE  Lim!IInv'
  BY DEF Lim!IInv, Lim!TypeOK, Lim!Available, Lim!Allowance

(* One more grant is counted, at most to the bound of the count.           *)
LEMMA GrantCounts ==
  ASSUME Lim!TypeOK, NEW t \in Fetches, Lim!Grant(t)
  PROVE  /\ granted' \in 0 .. Capacity + Rate * MaxTime + 1 /\ granted' <= granted + 1
         /\ request' \in [Fetches -> Lim!Points]
<1>1. Rate * MaxTime \in Nat
  BY RateProducts, LimiterAssumption
<1> DEFINE top == Capacity + Rate * MaxTime + 1
<1>2. top \in Nat /\ granted \in 0 .. top /\ granted' = Lim!Least(granted + 1, top)
  BY <1>1, LimiterAssumption DEF Lim!Grant, Lim!TypeOK
<1> HIDE DEF top
<1>3. granted' \in 0 .. top /\ granted' <= granted + 1
  BY <1>2 DEF Lim!Least
<1>4. request' \in [Fetches -> Lim!Points]
  BY DEF Lim!Grant, Lim!TypeOK, Lim!Points
<1> QED BY <1>3, <1>4 DEF top

LEMMA LimiterAcquire ==
  ASSUME Lim!IInv, NEW t \in Fetches, Lim!Acquire(t)
  PROVE  Lim!IInv'
<1>1. CASE up
  <2>1. request' \in [Fetches -> Lim!Points] /\ UNCHANGED granted
    BY <1>1 DEF Lim!Acquire, Lim!IInv, Lim!TypeOK, Lim!Points
  <2> QED BY <2>1, LimiterRest DEF Lim!Acquire, Lim!limiter, Lim!IInv, Lim!TypeOK
<1>2. CASE ~up
  <2>1. ~strict /\ Lim!Grant(t)
    BY <1>2 DEF Lim!Acquire
  <2> QED BY <2>1, GrantCounts DEF Lim!Acquire, Lim!limiter, Lim!IInv, Lim!TypeOK
<1> QED BY <1>1, <1>2

(* A grant takes one token of those that were available.                   *)
LEMMA LimiterConsume ==
  ASSUME Lim!IInv, NEW t \in Fetches, Lim!ConsumeToken(t)
  PROVE  Lim!IInv'
<1>1. /\ Lim!Tokens = Lim!Available /\ Lim!Available \in 0 .. Capacity /\ Rate * 0 = 0
      /\ UNCHANGED <<clock, strict, up, cooling, mark>> /\ clock \in Nat
  BY TokensAvailable, RateProducts, LimiterAssumption DEF Lim!IInv, Lim!TypeOK, Lim!ConsumeToken
<1>2. Lim!Allowance' = Lim!Allowance
  BY <1>1 DEF Lim!Allowance
<1>3. ASSUME NEW n \in 0 .. Capacity, bucket' = [tokens |-> n, updated |-> clock]
      PROVE  Lim!Available' = n /\ bucket' \in [tokens : 0 .. Capacity, updated : 0 .. clock']
  BY <1>1, <1>3, LimiterAssumption DEF Lim!Available, Lim!Least
<1>4. granted \in Nat /\ Lim!Allowance \in Nat
  <2>1. clock - mark \in Nat
    BY LimiterAssumption DEF Lim!IInv, Lim!TypeOK
  <2>2. Rate * (clock - mark) \in Nat /\ Rate * MaxTime \in Nat
    BY <2>1, RateProducts, LimiterAssumption
  <2> QED BY <2>2, LimiterAssumption DEF Lim!IInv, Lim!TypeOK, Lim!Allowance
<1>5. CASE Lim!Tokens >= 1
  <2>1. bucket' = [tokens |-> Lim!Tokens - 1, updated |-> clock] /\ Lim!Grant(t)
    BY <1>5 DEF Lim!ConsumeToken
  <2>2. Lim!Tokens - 1 \in 0 .. Capacity
    BY <1>1, <1>5, LimiterAssumption
  <2>3. /\ Lim!Available' = Lim!Available - 1
        /\ bucket' \in [tokens : 0 .. Capacity, updated : 0 .. clock']
    BY <1>1, <1>3, <2>1, <2>2
  <2>4. /\ granted' \in 0 .. Capacity + Rate * MaxTime + 1 /\ granted' <= granted + 1
        /\ request' \in [Fetches -> Lim!Points]
    BY <2>1, GrantCounts DEF Lim!IInv
  <2>5. Lim!TypeOK'
    BY <1>1, <2>3, <2>4 DEF Lim!IInv, Lim!TypeOK
  <2>6. granted' \in Nat
    BY <2>4, RateProducts, LimiterAssumption
  <2>7. ASSUME granted + Lim!Available <= Lim!Allowance
        PROVE  granted' + Lim!Available' <= Lim!Allowance'
    <3>1. PICK g, a, l : g = granted' /\ a = Lim!Available' /\ l = Lim!Allowance'
      OBVIOUS
    <3>2. g \in Nat /\ g <= granted + 1 /\ a = Lim!Available - 1 /\ Lim!Available \in Nat /\ l = Lim!Allowance
      BY <1>1, <1>2, <2>3, <2>4, <2>6, <3>1, LimiterNumbers
    <3>3. g + a <= l
      BY <1>4, <2>7, <3>2
    <3> QED BY <3>1, <3>3
  <2> QED BY <1>1, <2>5, <2>7 DEF Lim!IInv
<1>6. CASE ~(Lim!Tokens >= 1)
  <2>1. bucket' = [tokens |-> Lim!Tokens, updated |-> clock] /\ Lim!Refuse(t)
    BY <1>6 DEF Lim!ConsumeToken
  <2>2. /\ Lim!Available' = Lim!Available
        /\ bucket' \in [tokens : 0 .. Capacity, updated : 0 .. clock']
    BY <1>1, <1>3, <2>1
  <2>3. request' \in [Fetches -> Lim!Points] /\ granted' = granted
    BY <2>1 DEF Lim!Refuse, Lim!IInv, Lim!TypeOK, Lim!Points
  <2> QED BY <1>1, <1>2, <2>2, <2>3 DEF Lim!IInv, Lim!TypeOK
<1> QED BY <1>5, <1>6

LEMMA LimiterRefusals ==
  ASSUME Lim!IInv, NEW t \in Fetches,
         Lim!ReadCooldown(t) \/ Lim!ConsumeFails(t) \/ Lim!Release(t) \/ Lim!CoolDownSource(t)
  PROVE  Lim!IInv'
<1>1. request' \in [Fetches -> Lim!Points] /\ UNCHANGED <<clock, strict, up, bucket, mark, granted>>
  BY DEF Lim!ReadCooldown, Lim!ConsumeFails, Lim!Release, Lim!CoolDownSource, Lim!Refuse, Lim!limiter,
         Lim!IInv, Lim!TypeOK, Lim!Points
<1>2. cooling' \in 0 .. MaxTime + CoolDown
  BY LimiterAssumption DEF Lim!ReadCooldown, Lim!ConsumeFails, Lim!Release, Lim!CoolDownSource,
     Lim!limiter, Lim!IInv, Lim!TypeOK
<1> QED BY <1>1, <1>2, LimiterRest DEF Lim!IInv, Lim!TypeOK

(* What the bucket gains, the allowance gains too.                         *)
LEMMA LimiterTick == ASSUME Lim!IInv, Lim!Tick PROVE Lim!IInv'
<1> DEFINE age == clock - bucket.updated
           span == clock - mark
<1>1. /\ age \in Nat /\ span \in Nat /\ clock' = clock + 1 /\ clock' \in 0 .. MaxTime
      /\ clock' - bucket.updated = age + 1 /\ clock' - mark = span + 1
      /\ bucket.tokens \in 0 .. Capacity
      /\ UNCHANGED <<strict, up, bucket, cooling, request, mark, granted>>
  BY LimiterAssumption DEF Lim!IInv, Lim!TypeOK, Lim!Tick, Lim!limiter
<1>2. /\ Rate * age \in Nat /\ Rate * (age + 1) = Rate * age + Rate
      /\ Rate * span \in Nat /\ Rate * (span + 1) = Rate * span + Rate /\ Rate * MaxTime \in Nat
  BY <1>1, RateProducts, LimiterAssumption
<1>3. /\ Lim!Available = Lim!Least(Capacity, bucket.tokens + Rate * age)
      /\ Lim!Available' = Lim!Least(Capacity, bucket.tokens + (Rate * age + Rate))
      /\ Lim!Allowance = Capacity + Rate * span
      /\ Lim!Allowance' = Capacity + (Rate * span + Rate)
  BY <1>1, <1>2 DEF Lim!Available, Lim!Allowance, Lim!Least
<1>4. Lim!TypeOK'
  BY <1>1, LimiterAssumption DEF Lim!IInv, Lim!TypeOK
<1>5. granted \in Nat
  BY <1>2, LimiterAssumption DEF Lim!IInv, Lim!TypeOK
<1>6. granted' = granted /\ (strict' => granted + Lim!Available <= Lim!Allowance)
  BY <1>1 DEF Lim!IInv
<1> HIDE DEF age, span
<1>7. Lim!Available' <= Lim!Available + Rate /\ Lim!Available \in Nat /\ Lim!Available' \in Nat
  BY <1>1, <1>2, <1>3, LimiterAssumption DEF Lim!Least
<1>8. Lim!Allowance' = Lim!Allowance + Rate /\ Lim!Allowance \in Nat
  BY <1>2, <1>3, LimiterAssumption
<1>9. ASSUME granted + Lim!Available <= Lim!Allowance
      PROVE  granted' + Lim!Available' <= Lim!Allowance'
  <2>1. PICK g, a, l : g = granted' /\ a = Lim!Available' /\ l = Lim!Allowance'
    OBVIOUS
  <2>2. g = granted /\ a \in Nat /\ a <= Lim!Available + Rate /\ l = Lim!Allowance + Rate
    BY <1>6, <1>7, <1>8, <2>1
  <2>3. g + a <= l
    BY <1>5, <1>7, <1>8, <1>9, <2>2, LimiterNumbers
  <2> QED BY <2>1, <2>3
<1> QED BY <1>4, <1>6, <1>9 DEF Lim!IInv

(* The span that is observed from now on begins with at most a full bucket.*)
LEMMA LimiterObserve == ASSUME Lim!IInv, Lim!Observe PROVE Lim!IInv'
<1>1. /\ mark' = clock /\ granted' = 0 /\ UNCHANGED <<clock, strict, up, bucket, cooling, request>>
      /\ clock \in 0 .. MaxTime /\ Rate * 0 = 0 /\ Rate * MaxTime \in Nat
  BY RateProducts, LimiterAssumption DEF Lim!Observe, Lim!limiter, Lim!IInv, Lim!TypeOK
<1>2. Lim!TypeOK'
  BY <1>1, LimiterAssumption DEF Lim!IInv, Lim!TypeOK
<1>3. Lim!Available' \in 0 .. Capacity
  <2>1. Lim!Available' = Lim!Available
    BY <1>1 DEF Lim!Available
  <2> QED BY <2>1, TokensAvailable DEF Lim!IInv
<1>4. Lim!Allowance' = Capacity
  BY <1>1, LimiterAssumption DEF Lim!Allowance
<1>5. granted' + Lim!Available' <= Lim!Allowance'
  <2>1. PICK g, a, l : g = granted' /\ a = Lim!Available' /\ l = Lim!Allowance'
    OBVIOUS
  <2>2. g = 0 /\ a \in 0 .. Capacity /\ l = Capacity
    BY <1>1, <1>3, <1>4, <2>1
  <2>3. g + a <= l
    BY <2>2, LimiterNumbers
  <2> QED BY <2>1, <2>3
<1> QED BY <1>2, <1>5 DEF Lim!IInv

LEMMA LimiterNext == Lim!IInv /\ [Lim!Next]_(Lim!vars) => Lim!IInv'
<1> SUFFICES ASSUME Lim!IInv, [Lim!Next]_(Lim!vars) PROVE Lim!IInv'
  OBVIOUS
<1>1. CASE UNCHANGED Lim!vars
  BY <1>1, LimiterRest DEF Lim!vars, Lim!limiter, Lim!IInv, Lim!TypeOK
<1>2. ASSUME NEW t \in Fetches,
             \/ Lim!Acquire(t) \/ Lim!ReadCooldown(t) \/ Lim!ConsumeToken(t) \/ Lim!ConsumeFails(t)
             \/ Lim!Release(t) \/ Lim!CoolDownSource(t)
      PROVE  Lim!IInv'
  BY <1>2, LimiterAcquire, LimiterConsume, LimiterRefusals
<1>3. CASE Lim!Outage
  BY <1>3, LimiterRest DEF Lim!Outage, Lim!limiter, Lim!IInv, Lim!TypeOK
<1> QED BY <1>1, <1>2, <1>3, LimiterTick, LimiterObserve DEF Lim!Next


-----------------------------------------------------------------------------
(* A step of one discover: items are only added to those saved, so what    *)
(* the others hold stays good.                                             *)
LEMMA ScheduleStep ==
  ASSUME Sch!IInv, NEW d \in Discovers, NEW j, Sch!Become(d, j), Sch!JobOK(j, saved'),
         saved \subseteq saved', feed' = feed,
         cursor' # None => Sch!Remembered(cursor'.etag, saved')
  PROVE  Sch!IInv'
<1>1. \A k \in Discovers : Sch!JobOK(discover[k], saved')
  BY DEF Sch!IInv, Sch!JobOK, Sch!Remembered, Sch!Become
<1>2. \A k \in Discovers : Sch!JobOK(discover'[k], saved')
  BY <1>1 DEF Sch!IInv, Sch!Become
<1> QED BY <1>2 DEF Sch!IInv, Sch!Become

LEMMA ScheduleInit == Sch!Init => Sch!IInv
  BY DEF Sch!Init, Sch!IInv, Sch!JobOK, Sch!Idle

LEMMA ScheduleNext == Sch!IInv /\ [Sch!Next]_(Sch!vars) => Sch!IInv'
<1> SUFFICES ASSUME Sch!IInv, [Sch!Next]_(Sch!vars) PROVE Sch!IInv'
  OBVIOUS
<1>1. CASE UNCHANGED Sch!vars
  BY <1>1 DEF Sch!vars, Sch!IInv, Sch!JobOK, Sch!Remembered
<1>2. ASSUME NEW d \in Discovers, Sch!StartRun(d) PROVE Sch!IInv'
  <2>1. Sch!JobOK([at |-> "fetch", sees |-> IF cursor = None THEN None ELSE cursor.etag], saved')
    BY <1>2 DEF Sch!StartRun, Sch!IInv, Sch!JobOK, Sch!Remembered
  <2> QED BY <1>2, <2>1, ScheduleStep DEF Sch!StartRun, Sch!IInv, Sch!Remembered
<1>3. ASSUME NEW d \in Discovers, Sch!FetchFeed(d) PROVE Sch!IInv'
  <2>1. Sch!JobOK(discover[d], saved) /\ UNCHANGED <<saved, cursor, feed>> /\ feed # None
    BY <1>3, NoneAssumption DEF Sch!FetchFeed, Sch!IInv
  <2>2. CASE discover[d].sees = feed
    <3>1. Sch!JobOK([at |-> "succeed", version |-> feed, fresh |-> FALSE], saved')
      BY <1>3, <2>1, <2>2 DEF Sch!FetchFeed, Sch!JobOK, Sch!Remembered
    <3> QED BY <1>3, <2>1, <2>2, <3>1, ScheduleStep DEF Sch!FetchFeed, Sch!IInv, Sch!Remembered
  <2>3. CASE discover[d].sees # feed
    <3>1. Sch!JobOK([at |-> "save", version |-> feed, todo |-> 1 .. feed, fresh |-> FALSE], saved')
      BY <2>1 DEF Sch!JobOK
    <3> QED BY <1>3, <2>1, <2>3, <3>1, ScheduleStep DEF Sch!FetchFeed, Sch!IInv, Sch!Remembered
  <2> QED BY <2>2, <2>3
<1>4. ASSUME NEW d \in Discovers, Sch!SaveCandidate(d) PROVE Sch!IInv'
  <2> DEFINE new(item) ==
        [at |-> "save", version |-> discover[d].version, todo |-> discover[d].todo \ {item},
         fresh |-> discover[d].fresh \/ item \notin saved]
  <2>1. PICK item : saved' = saved \cup {item} /\ Sch!Become(d, new(item))
    BY <1>4 DEF Sch!SaveCandidate
  <2>2. Sch!JobOK(new(item), saved')
    BY <1>4, <2>1 DEF Sch!SaveCandidate, Sch!IInv, Sch!JobOK
  <2>3. UNCHANGED <<cursor, feed>> /\ saved \subseteq saved'
    BY <1>4, <2>1 DEF Sch!SaveCandidate
  <2> HIDE DEF new
  <2> QED BY <2>1, <2>2, <2>3, ScheduleStep DEF Sch!IInv, Sch!Remembered
<1>5. ASSUME NEW d \in Discovers, Sch!SavedAll(d) PROVE Sch!IInv'
  <2>1. Sch!JobOK([at |-> "succeed", version |-> discover[d].version, fresh |-> discover[d].fresh], saved')
    BY <1>5 DEF Sch!SavedAll, Sch!IInv, Sch!JobOK
  <2> QED BY <1>5, <2>1, ScheduleStep DEF Sch!SavedAll, Sch!IInv, Sch!Remembered
<1>6. ASSUME NEW d \in Discovers, Sch!RecordSuccess(d) \/ Sch!RecordFailure(d) PROVE Sch!IInv'
  <2>1. PICK etag, due, unchanged, failures, open :
          /\ Sch!Become(d, [at |-> "write", cursor |-> [etag |-> etag, due |-> due,
               unchanged |-> unchanged, failures |-> failures, open |-> open]])
          /\ \/ discover[d].at = "succeed" /\ etag = discover[d].version
             \/ etag = IF cursor = None THEN None ELSE cursor.etag
    BY <1>6 DEF Sch!RecordSuccess, Sch!RecordFailure
  <2>2. UNCHANGED <<saved, cursor, feed>>
    BY <1>6 DEF Sch!RecordSuccess, Sch!RecordFailure
  <2>3. Sch!Remembered(etag, saved')
    BY <2>1, <2>2 DEF Sch!IInv, Sch!JobOK, Sch!Remembered
  <2> DEFINE new == [etag |-> etag, due |-> due, unchanged |-> unchanged, failures |-> failures,
                     open |-> open]
  <2>4. Sch!JobOK([at |-> "write", cursor |-> new], saved')
    BY <2>3 DEF Sch!JobOK
  <2> HIDE DEF new
  <2> QED BY <2>1, <2>2, <2>4, ScheduleStep DEF Sch!IInv, Sch!Remembered, new
<1>7. ASSUME NEW d \in Discovers, Sch!SaveCursor(d) PROVE Sch!IInv'
  <2>1. Sch!JobOK(Sch!Idle, saved') /\ Sch!Remembered(cursor'.etag, saved')
    BY <1>7 DEF Sch!SaveCursor, Sch!IInv, Sch!JobOK, Sch!Idle, Sch!Remembered
  <2> QED BY <1>7, <2>1, ScheduleStep DEF Sch!SaveCursor
<1>8. ASSUME NEW d \in Discovers, Sch!DiscoverRaises(d) \/ Sch!Crash(d) PROVE Sch!IInv'
  <2>1. Sch!JobOK(Sch!Idle, saved') /\ Sch!JobOK([at |-> "fail"], saved')
    BY DEF Sch!JobOK, Sch!Idle
  <2> QED BY <1>8, <2>1, ScheduleStep DEF Sch!DiscoverRaises, Sch!Crash, Sch!IInv, Sch!Remembered
<1>9. CASE Sch!Publish \/ Sch!Tick
  BY <1>9 DEF Sch!Publish, Sch!Tick, Sch!IInv, Sch!JobOK, Sch!Remembered
<1> QED BY <1>1, <1>2, <1>3, <1>4, <1>5, <1>6, <1>7, <1>8, <1>9 DEF Sch!Next

-----------------------------------------------------------------------------
(* What the records of the retention hold.                                 *)
LEMMA RetentionShapes ==
  ASSUME Ret!TypeOK
  PROVE  /\ time \in Nat /\ time <= LastTime /\ written \in Nat /\ written <= MaxFiles
         /\ \A c \in Ret!Stored : artifact[c] \in Ret!Row /\ artifact[c].path \in Ret!Paths
         /\ \A c \in Candidates : artifact[c] # None => artifact[c] \in Ret!Row
         /\ \A f \in Fetches : fetch[f].at = "body" =>
              fetch[f].candidate \in Candidates /\ fetch[f].observed \in Ret!Times
         /\ \A f \in Fetches : fetch[f].at = "row" =>
              /\ fetch[f].candidate \in Candidates /\ fetch[f].observed \in Ret!Times
              /\ fetch[f].path \in Ret!Paths /\ fetch[f].reused \in BOOLEAN
         /\ \A k \in Cleanups : cleanup[k].at = "delete" =>
              cleanup[k].todo \subseteq Ret!Paths /\ cleanup[k].before \in Ret!Times
<1>1. /\ time \in Nat /\ time <= LastTime /\ written \in Nat /\ written <= MaxFiles
      /\ \A c \in Candidates : artifact[c] # None => artifact[c] \in Ret!Row
  BY RetentionAssumption DEF Ret!TypeOK
<1>2. \A c \in Ret!Stored : artifact[c] \in Ret!Row /\ artifact[c].path \in Ret!Paths
  BY <1>1 DEF Ret!Stored, Ret!Row
<1>3. \A f \in Fetches : fetch[f].at = "body" => fetch[f] \in [at : {"body"}, candidate : Candidates, observed : Ret!Times]
  BY DEF Ret!TypeOK, Ret!Fetch, Ret!Idle
<1>4. \A f \in Fetches : fetch[f].at = "row" =>
        fetch[f] \in [at : {"row"}, candidate : Candidates, path : Ret!Paths, observed : Ret!Times,
                     reused : BOOLEAN]
  BY DEF Ret!TypeOK, Ret!Fetch, Ret!Idle
<1>5. \A k \in Cleanups : cleanup[k].at = "delete" => cleanup[k] \in Ret!Cleanup
  BY DEF Ret!TypeOK, Ret!Idle
<1> QED BY <1>1, <1>2, <1>3, <1>4, <1>5 DEF Ret!Cleanup

LEMMA RetentionInit == Ret!Init => Ret!IInv
  BY RetentionAssumption DEF Ret!Init, Ret!IInv, Ret!TypeOK, Ret!BodyIsKept, Ret!Known,
     Ret!ListedIsExpired, Ret!NewIsAlone, Ret!Idle, Ret!Stored, Ret!With

LEMMA RetentionFindBody == ASSUME Ret!IInv, NEW f \in Fetches, Ret!FindBody(f) PROVE Ret!IInv'
<1> USE DEF Ret!IInv
<1>1. PICK mine :
        /\ fetch' = [fetch EXCEPT ![f] = mine]
        /\ mine \in Ret!Fetch /\ mine.observed = time
        /\ mine.at = "row" => mine.reused /\ \E c \in Ret!Stored : artifact[c].path = mine.path
  <2>1. time \in Ret!Times
    BY RetentionShapes, RetentionAssumption DEF Ret!Times
  <2>2. CASE Ret!Stored = {}
    BY <2>1, <2>2 DEF Ret!FindBody, Ret!Fetch
  <2>3. CASE Ret!Stored # {}
    BY <2>1, <2>3, RetentionShapes DEF Ret!FindBody, Ret!Fetch
  <2> QED BY <2>2, <2>3
<1>2. UNCHANGED <<time, artifact, files, written, cleanup>>
  BY DEF Ret!FindBody
<1>3. Ret!TypeOK'
  BY <1>1, <1>2 DEF Ret!TypeOK
<1>4. Ret!BodyIsKept' /\ Ret!ListedIsExpired'
  BY <1>2 DEF Ret!BodyIsKept, Ret!ListedIsExpired, Ret!Stored, Ret!With, Ret!Expired
<1>5. Ret!Known'
  BY <1>1, <1>2, RetentionShapes DEF Ret!Known, Ret!TypeOK, Ret!Stored
<1>6. Ret!NewIsAlone'
  BY <1>1, <1>2 DEF Ret!NewIsAlone, Ret!TypeOK, Ret!Stored, Ret!With
<1> QED BY <1>3, <1>4, <1>5, <1>6

LEMMA RetentionPutBody == ASSUME Ret!IInv, NEW f \in Fetches, Ret!PutBody(f) PROVE Ret!IInv'
<1> USE DEF Ret!IInv
<1>1. PICK n : n = written + 1
  OBVIOUS
<1> DEFINE mine == [at |-> "row", candidate |-> fetch[f].candidate, path |-> n,
                   observed |-> fetch[f].observed, reused |-> FALSE]
<1>2. /\ UNCHANGED <<time, artifact, cleanup>>
      /\ written' = n /\ files' = files \cup {n} /\ fetch' = [fetch EXCEPT ![f] = mine]
  BY <1>1 DEF Ret!PutBody
<1>3. n \in Ret!Paths /\ n \in 0 .. MaxFiles /\ written < n /\ written \in Nat
  BY <1>1, RetentionShapes, RetentionAssumption DEF Ret!PutBody, Ret!Paths
<1>4. mine \in Ret!Fetch
  BY <1>3, RetentionShapes DEF Ret!Fetch, Ret!PutBody
<1>5. Ret!TypeOK'
  BY <1>2, <1>3, <1>4 DEF Ret!TypeOK
<1>6. Ret!BodyIsKept'
  BY <1>2 DEF Ret!BodyIsKept, Ret!Stored, Ret!Expired
<1>7. \A p \in Ret!Paths : p <= written => p <= n /\ p # n
  BY <1>3, RetentionAssumption DEF Ret!Paths
<1>8. Ret!Known' /\ Ret!ListedIsExpired'
  BY <1>2, <1>3, <1>7, RetentionShapes DEF Ret!Known, Ret!ListedIsExpired, Ret!TypeOK, Ret!Stored, Ret!With,
     Ret!Expired, Ret!PutBody
<1>9. Ret!NewIsAlone'
  <2>1. Ret!With(n)' = {}
    BY <1>2, <1>3, <1>7, RetentionShapes, NoneAssumption DEF Ret!Known, Ret!Stored, Ret!With, Ret!Paths
  <2> QED BY <1>2, <1>7, <2>1, RetentionShapes
     DEF Ret!NewIsAlone, Ret!Known, Ret!ListedIsExpired, Ret!TypeOK, Ret!With
<1> QED BY <1>5, <1>6, <1>8, <1>9

(* A row of a listed body comes too late; a new body has no other row.     *)
LEMMA RetentionSaveArtifact == ASSUME Ret!IInv, NEW f \in Fetches, Ret!SaveArtifact(f) PROVE Ret!IInv'
<1> USE DEF Ret!IInv
<1> DEFINE c0 == fetch[f].candidate
           p0 == fetch[f].path
           late == fetch[f].reused /\ \A c \in Ret!With(p0) : Ret!Expired(c, time) \/ artifact[c].late
           new == [path |-> p0, expires |-> fetch[f].observed + Life,
                   observed |-> fetch[f].observed, late |-> late]
<1>1. /\ UNCHANGED <<time, files, written, cleanup>>
      /\ fetch' = [fetch EXCEPT ![f] = Ret!Idle] /\ artifact' = [artifact EXCEPT ![c0] = new]
  BY DEF Ret!SaveArtifact
<1>2. /\ c0 \in Candidates /\ p0 \in Ret!Paths /\ p0 <= written /\ p0 # None
      /\ fetch[f].observed \in Nat /\ fetch[f].observed <= time /\ time \in Nat /\ time <= LastTime
  BY RetentionShapes, RetentionAssumption, NoneAssumption DEF Ret!SaveArtifact, Ret!Known, Ret!Paths, Ret!Times
<1>3. late \in BOOLEAN
  OBVIOUS
<1>4. /\ ~late /\ fetch[f].reused => \E c \in Ret!With(p0) : ~Ret!Expired(c, time) /\ ~artifact[c].late
      /\ fetch[f].reused /\ (\A c \in Ret!With(p0) : Ret!Expired(c, time) \/ artifact[c].late) => late
  OBVIOUS
<1> HIDE DEF late
<1>5. /\ new \in Ret!Row /\ new.path = p0 /\ new.late = late
      /\ \A c \in Candidates : artifact'[c] = IF c = c0 THEN new ELSE artifact[c]
  <2>1. fetch[f].observed + Life \in Ret!Times /\ fetch[f].observed \in Ret!Times
    BY <1>2, RetentionAssumption DEF Ret!Times
  <2> QED BY <1>1, <1>2, <1>3, <2>1 DEF Ret!Row, Ret!TypeOK
<1> HIDE DEF new
<1>6. Ret!TypeOK'
  BY <1>1, <1>2, <1>5 DEF Ret!TypeOK
<1>7. Ret!BodyIsKept'
  <2>1. ASSUME ~late PROVE p0 \in files
    <3>1. CASE fetch[f].reused
      <4>1. PICK c \in Ret!With(p0) : ~Ret!Expired(c, time) /\ ~artifact[c].late
        BY <1>4, <2>1, <3>1
      <4>2. c \in Ret!Stored /\ artifact[c].path = p0
        BY <1>2, <4>1 DEF Ret!With, Ret!Stored
      <4> QED BY <4>1, <4>2 DEF Ret!BodyIsKept
    <3>2. CASE ~fetch[f].reused
      BY <3>2 DEF Ret!NewIsAlone, Ret!SaveArtifact
    <3> QED BY <3>1, <3>2
  <2> QED BY <1>1, <1>5, <2>1 DEF Ret!BodyIsKept, Ret!Stored, Ret!Expired
<1>8. Ret!Known'
  BY <1>1, <1>2, <1>5 DEF Ret!Known, Ret!Stored, Ret!TypeOK, Ret!Idle
<1>9. Ret!ListedIsExpired'
  <2>1. ASSUME NEW k \in Cleanups, cleanup[k].at = "delete", p0 \in cleanup[k].todo
        PROVE  late
    <3>1. fetch[f].reused
      BY <2>1 DEF Ret!NewIsAlone, Ret!SaveArtifact
    <3>2. cleanup[k].before \in Nat /\ cleanup[k].before <= time
      BY <2>1, RetentionShapes, RetentionAssumption DEF Ret!ListedIsExpired, Ret!Times
    <3>3. ASSUME NEW c \in Ret!With(p0) PROVE Ret!Expired(c, time) \/ artifact[c].late
      <4>1. artifact[c] \in Ret!Row /\ artifact[c].expires \in Nat
        BY <3>3, RetentionShapes, RetentionAssumption DEF Ret!With, Ret!Row, Ret!Times
      <4>2. Ret!Expired(c, cleanup[k].before) \/ artifact[c].late
        BY <2>1, <3>3 DEF Ret!ListedIsExpired
      <4> QED BY <1>2, <3>2, <4>1, <4>2 DEF Ret!Expired
    <3> QED BY <1>4, <3>1, <3>3
  <2> QED BY <1>1, <1>5, <2>1 DEF Ret!ListedIsExpired, Ret!With, Ret!Expired
<1>10. Ret!NewIsAlone'
  BY <1>1, <1>5 DEF Ret!NewIsAlone, Ret!With, Ret!TypeOK, Ret!Idle, Ret!SaveArtifact
<1> QED BY <1>6, <1>7, <1>8, <1>9, <1>10

LEMMA RetentionCleanup ==
  ASSUME Ret!IInv, NEW k \in Cleanups,
         Ret!ListExpired(k) \/ Ret!DeleteFile(k) \/ Ret!ExpireUnretained(k) \/ Ret!CleanupDies(k)
  PROVE  Ret!IInv'
<1> USE DEF Ret!IInv
<1>1. CASE Ret!ListExpired(k)
  <2>1. PICK listed \in SUBSET {p \in Ret!Paths : Ret!AllExpired(p, time)} :
          cleanup' = [cleanup EXCEPT ![k] = [at |-> "delete", todo |-> listed, before |-> time]]
    BY <1>1 DEF Ret!ListExpired
  <2>2. UNCHANGED <<time, artifact, files, written, fetch>>
    BY <1>1 DEF Ret!ListExpired
  <2>3. time \in Nat /\ time \in Ret!Times
    BY RetentionShapes, RetentionAssumption DEF Ret!Times
  <2>4. \A p \in listed : /\ p \in Ret!Paths /\ Ret!With(p) # {}
                          /\ \A c \in Ret!With(p) : Ret!Expired(c, time)
    BY DEF Ret!AllExpired
  <2>5. \A p \in listed : p <= written
    BY <2>4, NoneAssumption DEF Ret!Known, Ret!With, Ret!Stored, Ret!Paths
  <2>6. Ret!TypeOK' /\ Ret!BodyIsKept' /\ Ret!Known'
    BY <2>1, <2>2, <2>3, <2>4 DEF Ret!TypeOK, Ret!Cleanup, Ret!BodyIsKept, Ret!Known, Ret!Stored, Ret!Expired
  <2>7. Ret!ListedIsExpired'
    BY <2>1, <2>2, <2>3, <2>4, <2>5 DEF Ret!ListedIsExpired, Ret!TypeOK, Ret!With, Ret!Expired
  <2>8. Ret!NewIsAlone'
    BY <2>1, <2>2, <2>4 DEF Ret!NewIsAlone, Ret!TypeOK, Ret!With
  <2> QED BY <2>6, <2>7, <2>8
<1>2. CASE Ret!DeleteFile(k)
  <2>1. PICK p \in cleanup[k].todo :
          /\ files' = files \ {p}
          /\ cleanup' = [cleanup EXCEPT ![k] =
               [at |-> "delete", todo |-> cleanup[k].todo \ {p}, before |-> cleanup[k].before]]
    BY <1>2 DEF Ret!DeleteFile
  <2>2. UNCHANGED <<time, artifact, written, fetch>> /\ cleanup[k].at = "delete"
    BY <1>2 DEF Ret!DeleteFile
  <2>3. Ret!TypeOK'
    BY <2>1, <2>2, RetentionShapes DEF Ret!TypeOK, Ret!Cleanup
  <2>4. ASSUME NEW c \in Ret!Stored, ~Ret!Expired(c, time), ~artifact[c].late
        PROVE  artifact[c].path # p
    <3>1. /\ artifact[c].expires \in Nat /\ time \in Nat
          /\ cleanup[k].before \in Nat /\ cleanup[k].before <= time
      BY <2>2, <2>4, RetentionShapes, RetentionAssumption DEF Ret!Row, Ret!Times, Ret!ListedIsExpired
    <3>2. ASSUME artifact[c].path = p PROVE Ret!Expired(c, cleanup[k].before)
      BY <2>1, <2>2, <2>4, <3>2 DEF Ret!ListedIsExpired, Ret!With, Ret!Stored
    <3> QED BY <2>4, <3>1, <3>2 DEF Ret!Expired
  <2>5. Ret!BodyIsKept'
    BY <2>1, <2>2, <2>4 DEF Ret!BodyIsKept, Ret!Stored, Ret!Expired
  <2>6. Ret!Known' /\ Ret!ListedIsExpired'
    BY <2>1, <2>2 DEF Ret!Known, Ret!ListedIsExpired, Ret!TypeOK, Ret!Stored, Ret!With, Ret!Expired
  <2>7. Ret!NewIsAlone'
    BY <2>1, <2>2 DEF Ret!NewIsAlone, Ret!TypeOK, Ret!With
  <2> QED BY <2>3, <2>5, <2>6, <2>7
<1>3. CASE Ret!ExpireUnretained(k)
  <2> DEFINE gone(c) == c \in Ret!Stored /\ Ret!Expired(c, cleanup[k].before)
  <2>1. /\ artifact' = [c \in Candidates |->
             IF gone(c) THEN [artifact[c] EXCEPT !.path = None] ELSE artifact[c]]
        /\ cleanup' = [cleanup EXCEPT ![k] = Ret!Idle] /\ UNCHANGED <<time, files, written, fetch>>
    BY <1>3 DEF Ret!ExpireUnretained
  <2>2. ASSUME NEW c \in Candidates
        PROVE  /\ artifact'[c] \in Ret!Row \cup {None}
               /\ artifact'[c] = artifact[c] \/ artifact'[c].path = None
    <3>1. CASE gone(c)
      <4>1. artifact[c] \in Ret!Row
        BY <3>1, RetentionShapes
      <4> HIDE DEF gone
      <4>2. artifact'[c] = [artifact[c] EXCEPT !.path = None]
        BY <2>1, <3>1
      <4> QED BY <4>1, <4>2 DEF Ret!Row
    <3>2. CASE ~gone(c)
      <4> HIDE DEF gone
      <4> QED BY <2>1, <3>2 DEF Ret!TypeOK
    <3> QED BY <3>1, <3>2
  <2> HIDE DEF gone
  <2>3. Ret!TypeOK'
    <3>1. artifact' \in [Candidates -> Ret!Row \cup {None}]
      BY <2>1, <2>2
    <3> QED BY <2>1, <3>1 DEF Ret!TypeOK
  <2>4. Ret!BodyIsKept' /\ Ret!Known'
    BY <2>1, <2>2 DEF Ret!BodyIsKept, Ret!Known, Ret!Stored, Ret!Expired
  <2>5. \A p \in Ret!Paths : \A c \in Ret!With(p)' : c \in Ret!With(p) /\ artifact'[c] = artifact[c]
    BY <2>2, NoneAssumption DEF Ret!With, Ret!Paths
  <2>6. Ret!NewIsAlone'
    BY <2>1, <2>5, RetentionShapes DEF Ret!NewIsAlone, Ret!TypeOK, Ret!Idle
  <2>7. Ret!ListedIsExpired'
    <3> SUFFICES ASSUME NEW l \in Cleanups, cleanup'[l].at = "delete"
                 PROVE  /\ cleanup'[l].before <= time'
                        /\ \A p \in cleanup'[l].todo : p <= written' /\ \A c \in Ret!With(p)' :
                             artifact'[c].expires < cleanup'[l].before \/ artifact'[c].late
      BY DEF Ret!ListedIsExpired, Ret!Expired
    <3>1. cleanup'[l] = cleanup[l] /\ cleanup[l].at = "delete"
      BY <2>1 DEF Ret!TypeOK, Ret!Idle
    <3> QED BY <2>1, <2>5, <3>1, RetentionShapes DEF Ret!ListedIsExpired, Ret!Expired
  <2> QED BY <2>3, <2>4, <2>6, <2>7
<1>4. CASE Ret!CleanupDies(k)
  BY <1>4 DEF Ret!CleanupDies, Ret!TypeOK, Ret!BodyIsKept, Ret!Known, Ret!ListedIsExpired, Ret!NewIsAlone,
     Ret!Idle, Ret!Stored, Ret!With, Ret!Expired
<1> QED BY <1>1, <1>2, <1>3, <1>4

LEMMA RetentionTick == ASSUME Ret!IInv, Ret!Tick PROVE Ret!IInv'
<1> USE DEF Ret!IInv
<1>1. PICK later : later = time + 1
  OBVIOUS
<1>2. /\ time' = later /\ UNCHANGED <<artifact, files, written, fetch, cleanup>>
      /\ time < later /\ time \in Nat /\ later \in 0 .. LastTime
  BY <1>1, RetentionShapes, RetentionAssumption DEF Ret!Tick
<1>3. \A t \in Ret!Times : t <= time => t <= later
  BY <1>2, RetentionAssumption DEF Ret!Times
<1>4. Ret!TypeOK' /\ Ret!NewIsAlone'
  BY <1>2 DEF Ret!TypeOK, Ret!NewIsAlone, Ret!With
<1>5. Ret!Known' /\ Ret!ListedIsExpired'
  BY <1>2, <1>3, RetentionShapes DEF Ret!Known, Ret!ListedIsExpired, Ret!Stored, Ret!With, Ret!Expired
<1>6. ASSUME NEW c \in Ret!Stored, Ret!Expired(c, time) PROVE Ret!Expired(c, later)
  <2>1. artifact[c].expires \in Nat
    BY RetentionShapes, RetentionAssumption DEF Ret!Row, Ret!Times
  <2> QED BY <1>2, <1>6, <2>1 DEF Ret!Expired
<1>7. Ret!BodyIsKept'
  BY <1>2, <1>6 DEF Ret!BodyIsKept, Ret!Stored, Ret!Expired
<1> QED BY <1>4, <1>5, <1>7

LEMMA RetentionNext == Ret!IInv /\ [Ret!Next]_(Ret!vars) => Ret!IInv'
<1> SUFFICES ASSUME Ret!IInv, [Ret!Next]_(Ret!vars) PROVE Ret!IInv'
  OBVIOUS
<1>1. CASE UNCHANGED Ret!vars
  BY <1>1 DEF Ret!vars, Ret!IInv, Ret!TypeOK, Ret!BodyIsKept, Ret!Known, Ret!ListedIsExpired, Ret!NewIsAlone,
     Ret!Stored, Ret!With, Ret!Expired
<1>2. ASSUME NEW f \in Fetches, Ret!FetchDies(f) PROVE Ret!IInv'
  BY <1>2 DEF Ret!FetchDies, Ret!IInv, Ret!TypeOK, Ret!BodyIsKept, Ret!Known, Ret!ListedIsExpired,
     Ret!NewIsAlone, Ret!Idle, Ret!Stored, Ret!With, Ret!Expired
<1> QED BY <1>1, <1>2, RetentionFindBody, RetentionPutBody, RetentionSaveArtifact, RetentionCleanup,
           RetentionTick DEF Ret!Next

-----------------------------------------------------------------------------
LEMMA NoOwner == None \notin Upl!Runs
  BY NoneAssumption, UploadsAssumption DEF Upl!Runs

(* A step of one worker, which keeps its run or ends its task.             *)
LEMMA OwnersStep ==
  ASSUME Upl!TypeOK, Upl!Owners, NEW w \in Workers, NEW j, job' = [job EXCEPT ![w] = j],
         j = Upl!Idle \/ (job[w] # Upl!Idle /\ j.run = job[w].run /\ j.at # "lock"),
         \A r \in Upl!Runs : run[r] # None => run'[r] # None
  PROVE  Upl!Owners'
<1>1. \A v \in Workers : job'[v] = IF v = w THEN j ELSE job[v]
  BY DEF Upl!TypeOK
<1>2. \A v \in Workers : job[v] # Upl!Idle => job[v].run \in Upl!Runs
  BY DEF Upl!TypeOK, Upl!Job
<1> QED BY <1>1, <1>2 DEF Upl!Owners

(* The locks the other workers own stay theirs.                            *)
LEMMA LocksStep ==
  ASSUME Upl!TypeOK, Upl!LocksHold, NEW w \in Workers, NEW j, job' = [job EXCEPT ![w] = j],
         j # Upl!Idle => \A k \in j.held \ j.lapsed : lock'[k] = j.run,
         \A v \in Workers \ {w} : \A k \in Upl!Keys :
           job[v] # Upl!Idle /\ lock[k] = job[v].run => lock'[k] = lock[k]
  PROVE  Upl!LocksHold'
<1>1. \A v \in Workers : job'[v] = IF v = w THEN j ELSE job[v]
  BY DEF Upl!TypeOK
<1>2. \A v \in Workers : job[v] # Upl!Idle => job[v].held \subseteq Upl!Keys
  BY DEF Upl!TypeOK, Upl!Job
<1> QED BY <1>1, <1>2 DEF Upl!LocksHold

(* The documents of other runs are left as they are.                       *)
LEMMA DocumentsStep ==
  ASSUME Upl!IInv, NEW w \in Workers, NEW j, job' = [job EXCEPT ![w] = j], job[w] # Upl!Idle,
         Upl!JobOK(j)',
         \A r \in Upl!Runs, b \in Blobs : doc'[<<r, b>>] = doc[<<r, b>>] \/ r = job[w].run
  PROVE  \A v \in Workers : Upl!JobOK(job[v])'
<1> USE DEF Upl!IInv
<1> SUFFICES ASSUME NEW v \in Workers PROVE Upl!JobOK(job[v])'
  OBVIOUS
<1>1. PICK i : i = job'[v]
  OBVIOUS
<1>2. CASE v = w
  BY <1>1, <1>2 DEF Upl!TypeOK, Upl!JobOK, Upl!Settled
<1>3. CASE v # w
  <2>1. i = job[v] /\ Upl!JobOK(i)
    BY <1>1, <1>3 DEF Upl!TypeOK
  <2>2. CASE i = Upl!Idle
    BY <1>1, <2>2 DEF Upl!JobOK, Upl!Idle, Upl!Stages
  <2>3. CASE i # Upl!Idle
    <3>1. i \in Upl!Job /\ i.run \in Upl!Runs /\ i.todo \subseteq Blobs /\ i.run # job[w].run
      BY <1>3, <2>1, <2>3 DEF Upl!TypeOK, Upl!Job, Upl!Owners
    <3>2. \A b \in Blobs : doc'[<<i.run, b>>] = doc[<<i.run, b>>]
      BY <3>1
    <3>3. \A b \in Blobs : Upl!Settled(i.run, b) => Upl!Settled(i.run, b)'
      BY <3>2 DEF Upl!Settled
    <3>4. i.at \in Upl!Stages => i.blob \in Blobs
      BY <2>1, <3>1 DEF Upl!JobOK
    <3>5. Upl!JobOK(i)'
      BY <2>1, <3>2, <3>3, <3>4 DEF Upl!JobOK, Upl!Stages
    <3> QED BY <1>1, <3>5
  <2> QED BY <2>2, <2>3
<1> QED BY <1>2, <1>3

(* A succeeded batch stands on a run nobody works on any more.             *)
LEMMA SuccessStep ==
  ASSUME Upl!IInv, NEW w \in Workers, NEW j, job' = [job EXCEPT ![w] = j], job[w] # Upl!Idle,
         j = Upl!Idle \/ (j.run = job[w].run /\ (job[w].at = "end" => j.at = "end")),
         batch' = batch, \A r \in Upl!Runs : run[r] # None => run'[r] # None,
         \A r \in Upl!Runs, b \in Blobs :
           doc'[<<r, b>>] = doc[<<r, b>>] \/ (r = job[w].run /\ job[w].at # "end")
  PROVE  Upl!SuccessStands'
<1> USE DEF Upl!IInv
<1> SUFFICES ASSUME batch = "succeeded" PROVE Upl!SuccessStands'
  BY DEF Upl!SuccessStands
<1>1. PICK r \in Upl!Runs :
        /\ run[r] # None /\ \A b \in Blobs \ Rejected : Upl!Settled(r, b)
        /\ \A v \in Workers : job[v] # Upl!Idle /\ job[v].run = r => job[v].at = "end"
  BY DEF Upl!SuccessStands
<1>2. \A b \in Blobs \ Rejected : Upl!Settled(r, b)'
  BY <1>1 DEF Upl!Settled
<1>3. \A v \in Workers : job'[v] # Upl!Idle /\ job'[v].run = r => job'[v].at = "end"
  BY <1>1 DEF Upl!TypeOK
<1> QED BY <1>1, <1>2, <1>3 DEF Upl!SuccessStands

LEMMA UploadInit == Upl!Init => Upl!IInv
<1> SUFFICES ASSUME Upl!Init PROVE Upl!IInv
  OBVIOUS
<1>1. Upl!TypeOK
  BY UploadsAssumption DEF Upl!Init, Upl!TypeOK
<1> QED BY <1>1 DEF Upl!Init, Upl!IInv, Upl!Owners, Upl!LocksHold, Upl!SuccessStands, Upl!JobOK, Upl!Idle, Upl!Stages

LEMMA UploadReceive == ASSUME Upl!IInv, NEW w \in Workers, Upl!Receive(w) PROVE Upl!IInv'
<1> USE DEF Upl!IInv
<1>1. PICK r \in Upl!Runs : run[r] = None /\ run' = [run EXCEPT ![r] = "running"]
        /\ Upl!Become(w, [at |-> "lock", run |-> r, blob |-> None, todo |-> {},
                     healthy |-> w \in linked, locking |-> FALSE, held |-> {},
                     lapsed |-> {}, documents |-> FALSE, errors |-> FALSE])
  BY DEF Upl!Receive
<1>2. PICK j : /\ j = [at |-> "lock", run |-> r, blob |-> None, todo |-> {},
                     healthy |-> w \in linked, locking |-> FALSE, held |-> {},
                     lapsed |-> {}, documents |-> FALSE, errors |-> FALSE]
               /\ job' = [job EXCEPT ![w] = j]
  BY <1>1 DEF Upl!Become
<1>3. j \in Upl!Job
  BY <1>2 DEF Upl!Job
<1>4. j.run = r /\ j.held = {} /\ j.at = "lock"
  BY <1>2
<1>5. UNCHANGED <<batch, blob, doc, points, indexed, lock, linked, dead, faults>> /\ job[w] = Upl!Idle
  BY DEF Upl!Receive, Upl!rows
<1>6. \A v \in Workers : job'[v] = IF v = w THEN j ELSE job[v]
  BY <1>2 DEF Upl!TypeOK
<1>7. Upl!TypeOK'
  BY <1>1, <1>2, <1>3, <1>5 DEF Upl!TypeOK, Upl!TaskStatus
<1>8. \A v \in Workers : job[v] # Upl!Idle => job[v].run \in Upl!Runs /\ run[job[v].run] # None
  BY DEF Upl!TypeOK, Upl!Job, Upl!Owners
<1>9. \A s \in Upl!Runs : run[s] # None => run'[s] # None /\ s # r
  BY <1>1 DEF Upl!TypeOK
<1>10. run'[r] # None
  BY <1>1, UploadsAssumption DEF Upl!TypeOK, Upl!TaskStatus
<1>11. Upl!Owners'
  BY <1>4, <1>6, <1>8, <1>9, <1>10 DEF Upl!Owners
<1>12. Upl!LocksHold'
  BY <1>4, <1>5, <1>6 DEF Upl!LocksHold
<1>13. Upl!SuccessStands'
  <2> SUFFICES ASSUME batch = "succeeded" PROVE Upl!SuccessStands'
    BY <1>5 DEF Upl!SuccessStands
  <2>1. PICK s \in Upl!Runs :
          /\ run[s] # None /\ \A b \in Blobs \ Rejected : Upl!Settled(s, b)
          /\ \A v \in Workers : job[v] # Upl!Idle /\ job[v].run = s => job[v].at = "end"
    BY DEF Upl!SuccessStands
  <2>2. \A b \in Blobs \ Rejected : Upl!Settled(s, b)'
    BY <1>5, <2>1 DEF Upl!Settled
  <2> QED BY <1>4, <1>6, <1>9, <2>1, <2>2 DEF Upl!SuccessStands
<1>14. \A v \in Workers : Upl!JobOK(job[v])'
  <2> SUFFICES ASSUME NEW v \in Workers PROVE Upl!JobOK(job[v])'
    OBVIOUS
  <2> QED BY <1>4, <1>5, <1>6 DEF Upl!JobOK, Upl!Stages, Upl!Settled
<1> QED BY <1>5, <1>7, <1>11, <1>12, <1>13, <1>14

(* A step of a worker that has a task: what is left to show for an action. *)
LEMMA UploadStep ==
  ASSUME Upl!IInv, NEW w \in Workers, NEW j, job' = [job EXCEPT ![w] = j], job[w] # Upl!Idle,
         Upl!TypeOK', Upl!JobOK(j)', batch' = batch,
         \/ j = Upl!Idle
         \/ /\ j.run = job[w].run /\ j.at # "lock" /\ (job[w].at = "end" => j.at = "end")
            /\ \A k \in j.held \ j.lapsed : lock'[k] = job[w].run,
         \A k \in Upl!Keys : lock'[k] = lock[k] \/ lock[k] = None \/ lock[k] = job[w].run,
         \A r \in Upl!Runs : run[r] # None => run'[r] # None,
         \A r \in Upl!Runs, b \in Blobs :
           doc'[<<r, b>>] = doc[<<r, b>>] \/ (r = job[w].run /\ job[w].at # "end"),
         \A b \in Blobs : blob'[b] = "rejected" => blob[b] = "rejected"
  PROVE  Upl!IInv'
<1> USE DEF Upl!IInv
<1>1. Upl!Owners'
  BY OwnersStep
<1>2. \A v \in Workers \ {w} : job[v] # Upl!Idle => job[v].run # None /\ job[v].run # job[w].run
  BY NoOwner DEF Upl!TypeOK, Upl!Job, Upl!Owners
<1>3. Upl!LocksHold'
  <2>1. ASSUME NEW v \in Workers \ {w}, NEW k \in Upl!Keys, job[v] # Upl!Idle, lock[k] = job[v].run
        PROVE  lock'[k] = lock[k]
    BY <1>2, <2>1
  <2>2. j # Upl!Idle => \A k \in j.held \ j.lapsed : lock'[k] = j.run
    OBVIOUS
  <2>3. Upl!TypeOK /\ Upl!LocksHold
    OBVIOUS
  <2> HIDE DEF Upl!IInv
  <2> QED BY <2>1, <2>2, <2>3, LocksStep
<1>4. Upl!SuccessStands'
  BY SuccessStep
<1>5. \A v \in Workers : Upl!JobOK(job[v])'
  BY DocumentsStep
<1>6. \A b \in Blobs : blob'[b] = "rejected" => b \in Rejected
  OBVIOUS
<1> QED BY <1>1, <1>3, <1>4, <1>5, <1>6

(* What a worker that has a task holds.                                    *)
LEMMA UploadJob ==
  ASSUME Upl!IInv, NEW w \in Workers, job[w].at # "idle"
  PROVE  /\ job[w] \in Upl!Job /\ job[w] # Upl!Idle /\ job[w].run \in Upl!Runs
         /\ \A k \in job[w].held \ job[w].lapsed : lock[k] = job[w].run
  BY DEF Upl!IInv, Upl!TypeOK, Upl!Job, Upl!Idle, Upl!LocksHold

LEMMA UploadTakeBatchLock == ASSUME Upl!IInv, NEW w \in Workers, Upl!TakeBatchLock(w) PROVE Upl!IInv'
<1>1. PICK j : /\ job' = [job EXCEPT ![w] = j]
               /\ \/ /\ lock[Upl!TheBatch] = None /\ lock' = [lock EXCEPT ![Upl!TheBatch] = job[w].run]
                     /\ j = [job[w] EXCEPT !.at = "list", !.held = {Upl!TheBatch}]
                  \/ lock' = lock /\ j = [job[w] EXCEPT !.at = "list"]
  BY DEF Upl!TakeBatchLock, Upl!Become, Upl!CanAcquire
<1>2. /\ UNCHANGED <<batch, blob, doc, points, indexed, run, linked, dead, faults>> /\ job[w].at = "lock"
      /\ job[w] \in Upl!Job /\ job[w] # Upl!Idle /\ job[w].run \in Upl!Runs /\ job[w].held = {}
  BY UploadJob DEF Upl!TakeBatchLock, Upl!rows, Upl!IInv, Upl!Owners
<1>3. /\ j \in Upl!Job /\ j.at = "list" /\ j.run = job[w].run
      /\ j.held = {} \/ (j.held = {Upl!TheBatch} /\ lock' = [lock EXCEPT ![Upl!TheBatch] = job[w].run])
  BY <1>1, <1>2 DEF Upl!Job, Upl!Keys
<1>4. Upl!TheBatch \in Upl!Keys
  BY DEF Upl!Keys
<1>5. Upl!TypeOK'
  BY <1>1, <1>2, <1>3, <1>4 DEF Upl!IInv, Upl!TypeOK
<1>6. /\ \A k \in j.held \ j.lapsed : lock'[k] = job[w].run
      /\ \A k \in Upl!Keys : lock'[k] = lock[k] \/ lock[k] = None
  BY <1>1, <1>3, <1>4 DEF Upl!IInv, Upl!TypeOK
<1>7. Upl!JobOK(j)'
  BY <1>3 DEF Upl!JobOK, Upl!Stages
<1> QED BY <1>1, <1>2, <1>3, <1>5, <1>6, <1>7, UploadStep

LEMMA UploadListBlobs == ASSUME Upl!IInv, NEW w \in Workers, Upl!ListBlobs(w) PROVE Upl!IInv'
<1> DEFINE left == {b \in Blobs : blob[b] # "rejected"}
<1>1. PICK j : job' = [job EXCEPT ![w] = j] /\ j = [job[w] EXCEPT !.at = "next", !.todo = left]
  BY DEF Upl!ListBlobs, Upl!Become
<1>2. /\ UNCHANGED <<batch, blob, doc, points, indexed, run, lock, linked, dead, faults>> /\ job[w].at = "list"
      /\ job[w] \in Upl!Job /\ job[w] # Upl!Idle /\ job[w].run \in Upl!Runs
      /\ \A k \in job[w].held \ job[w].lapsed : lock[k] = job[w].run
  BY UploadJob DEF Upl!ListBlobs, Upl!rows
<1>3. /\ j \in Upl!Job /\ j.at = "next" /\ j.run = job[w].run /\ j.todo = left
      /\ j.held = job[w].held /\ j.lapsed = job[w].lapsed
  BY <1>1, <1>2 DEF Upl!Job
<1>4. Upl!TypeOK'
  BY <1>1, <1>2, <1>3 DEF Upl!IInv, Upl!TypeOK
<1>5. Upl!JobOK(j)'
  BY <1>3 DEF Upl!JobOK, Upl!Stages, Upl!IInv
<1> QED BY <1>1, <1>2, <1>3, <1>4, <1>5, UploadStep

LEMMA UploadTakeParseLock == ASSUME Upl!IInv, NEW w \in Workers, Upl!TakeParseLock(w) PROVE Upl!IInv'
<1>1. PICK b, j :
        /\ b \in job[w].todo
        /\ job' = [job EXCEPT ![w] = j]
        /\ j = [job[w] EXCEPT !.at = "parse", !.blob = b, !.locking = w \in linked,
                              !.held = IF w \in linked THEN @ \cup {b} ELSE @]
        /\ w \in linked => lock[b] = None
        /\ lock' = IF w \in linked THEN [lock EXCEPT ![b] = job[w].run] ELSE lock
  BY DEF Upl!TakeParseLock, Upl!Become, Upl!CanAcquire, Upl!NextBlob
<1>2. /\ UNCHANGED <<batch, blob, doc, points, indexed, run, linked, dead, faults>> /\ job[w].at = "next"
      /\ job[w] \in Upl!Job /\ job[w] # Upl!Idle /\ job[w].run \in Upl!Runs
      /\ \A k \in job[w].held \ job[w].lapsed : lock[k] = job[w].run
  BY UploadJob DEF Upl!TakeParseLock, Upl!NextBlob, Upl!rows
<1>3. b \in Blobs /\ b \in Upl!Keys
  BY <1>1, <1>2 DEF Upl!Job, Upl!Keys
<1>4. /\ j.at = "parse" /\ j.run = job[w].run /\ j.blob = b /\ j.todo = job[w].todo
      /\ j.held = (IF w \in linked THEN job[w].held \cup {b} ELSE job[w].held)
      /\ j.lapsed = job[w].lapsed /\ j.errors = job[w].errors
  BY <1>1, <1>2 DEF Upl!Job
<1>5. j \in Upl!Job
  <2>1. PICK locking \in BOOLEAN, held \in SUBSET Upl!Keys :
          j = [job[w] EXCEPT !.at = "parse", !.blob = b, !.locking = locking, !.held = held]
    <3>1. (IF w \in linked THEN job[w].held \cup {b} ELSE job[w].held) \in SUBSET Upl!Keys
      BY <1>2, <1>3 DEF Upl!Job
    <3>2. (w \in linked) \in BOOLEAN
      OBVIOUS
    <3> QED BY <1>1, <3>1, <3>2
  <2> QED BY <1>2, <1>3, <2>1 DEF Upl!Job
<1>6. Upl!TypeOK'
  BY <1>1, <1>2, <1>3, <1>5 DEF Upl!IInv, Upl!TypeOK
<1>7. /\ \A k \in j.held \ j.lapsed : lock'[k] = job[w].run
      /\ \A k \in Upl!Keys : lock'[k] = lock[k] \/ lock[k] = None
  BY <1>1, <1>2, <1>3, <1>4 DEF Upl!IInv, Upl!TypeOK, Upl!Job
<1>8. Upl!JobOK(j)'
  <2>1. \A c \in Blobs \ Rejected : ~j.errors => c \in j.todo \/ Upl!Settled(j.run, c)
    BY <1>2, <1>4 DEF Upl!JobOK, Upl!IInv
  <2>2. \A c \in Blobs \ Rejected : ~j.errors => c \in j.todo \/ Upl!Settled(j.run, c)'
    BY <1>2, <2>1 DEF Upl!Settled
  <2> QED BY <1>1, <1>4, <2>2 DEF Upl!JobOK, Upl!Stages
<1> QED BY <1>1, <1>2, <1>4, <1>6, <1>7, <1>8, UploadStep

LEMMA UploadAlreadyParsed == ASSUME Upl!IInv, NEW w \in Workers, Upl!AlreadyParsed(w) PROVE Upl!IInv'
<1>1. PICK b, j : /\ job' = [job EXCEPT ![w] = j]
                  /\ j = [job[w] EXCEPT !.todo = @ \ {b}, !.errors = TRUE]
  BY DEF Upl!AlreadyParsed, Upl!Become
<1>2. /\ UNCHANGED <<batch, blob, doc, points, indexed, run, lock, linked, dead, faults>> /\ job[w].at = "next"
      /\ job[w] \in Upl!Job /\ job[w] # Upl!Idle /\ job[w].run \in Upl!Runs
      /\ \A k \in job[w].held \ job[w].lapsed : lock[k] = job[w].run
  BY UploadJob DEF Upl!AlreadyParsed, Upl!NextBlob, Upl!rows
<1>3. /\ j \in Upl!Job /\ j.at = "next" /\ j.run = job[w].run /\ j.errors
      /\ j.held = job[w].held /\ j.lapsed = job[w].lapsed
  BY <1>1, <1>2 DEF Upl!Job
<1>4. Upl!TypeOK'
  BY <1>1, <1>2, <1>3 DEF Upl!IInv, Upl!TypeOK
<1>5. Upl!JobOK(j)'
  BY <1>3 DEF Upl!JobOK, Upl!Stages
<1> QED BY <1>1, <1>2, <1>3, <1>4, <1>5, UploadStep

(* What a worker that has a blob in hand holds.                            *)
LEMMA UploadAttempt ==
  ASSUME Upl!IInv, NEW w \in Workers, job[w].at \in Upl!Stages
  PROVE  /\ job[w] \in Upl!Job /\ job[w] # Upl!Idle /\ job[w].run \in Upl!Runs
         /\ job[w].at # "end" /\ job[w].blob \in Blobs /\ Upl!Mine(w) \in Upl!Docs
         /\ \A k \in job[w].held \ job[w].lapsed : lock[k] = job[w].run
         /\ Upl!JobOK(job[w])
<1>1. job[w].at # "idle" /\ job[w].at # "end" /\ Upl!JobOK(job[w])
  BY DEF Upl!IInv, Upl!Stages
<1>2. job[w] \in Upl!Job /\ job[w].blob \in Blobs
  BY <1>1, UploadJob DEF Upl!JobOK, Upl!Job
<1> QED BY <1>1, <1>2, UploadJob DEF Upl!Mine, Upl!Docs

(* What a worker has left or settled elsewhere is not touched.             *)
LEMMA StillLeft ==
  ASSUME Upl!TypeOK, NEW i \in Upl!Job, NEW j, Upl!JobOK(i), i.at \in Upl!Stages \cup {"next"},
         j.run = i.run, j.errors <=> i.errors, i.todo \subseteq j.todo \cup {i.blob},
         \A c \in Blobs : c # i.blob => doc'[<<i.run, c>>] = doc[<<i.run, c>>],
         i.blob \in j.todo \/ Upl!Settled(i.run, i.blob)',
         ~j.errors
  PROVE  \A c \in Blobs \ Rejected : c \in j.todo \/ Upl!Settled(j.run, c)'
<1>1. \A c \in Blobs \ Rejected : c \in i.todo \/ Upl!Settled(i.run, c)
  BY DEF Upl!JobOK
<1>2. \A c \in Blobs : c # i.blob /\ Upl!Settled(i.run, c) => Upl!Settled(i.run, c)'
  BY DEF Upl!Settled
<1> QED BY <1>1, <1>2

LEMMA UploadSaveDocument == ASSUME Upl!IInv, NEW w \in Workers, Upl!SaveDocument(w) PROVE Upl!IInv'
<1> DEFINE row == [parse |-> "parsed", version |-> None]
<1>1. PICK j : job' = [job EXCEPT ![w] = j] /\ j = [job[w] EXCEPT !.at = "chunk"]
  BY DEF Upl!SaveDocument, Upl!Become
<1>2. /\ UNCHANGED <<batch, points, indexed, run, lock, linked, dead, faults>> /\ job[w].at = "parse"
      /\ doc' = [doc EXCEPT ![<<job[w].run, job[w].blob>>] = row]
      /\ blob' = [blob EXCEPT ![job[w].blob] = "parsed"]
      /\ job[w] \in Upl!Job /\ job[w] # Upl!Idle /\ job[w].run \in Upl!Runs /\ job[w].blob \in Blobs
      /\ \A k \in job[w].held \ job[w].lapsed : lock[k] = job[w].run
      /\ Upl!JobOK(job[w])
  BY UploadAttempt DEF Upl!SaveDocument, Upl!Mine, Upl!Stages
<1>3. /\ j \in Upl!Job /\ j.at = "chunk" /\ j.run = job[w].run /\ j.held = job[w].held
      /\ j.lapsed = job[w].lapsed /\ j.blob = job[w].blob /\ j.todo = job[w].todo
      /\ (j.errors <=> job[w].errors)
  BY <1>1, <1>2 DEF Upl!Job
<1>4. row \in Upl!Document /\ row # None
  BY UploadsAssumption DEF Upl!Document
<1>5. Upl!TypeOK'
  BY <1>1, <1>2, <1>3, <1>4 DEF Upl!IInv, Upl!TypeOK, Upl!Docs
<1>6. /\ doc'[<<job[w].run, job[w].blob>>] = row
      /\ \A s \in Upl!Runs, c \in Blobs :
           doc'[<<s, c>>] = doc[<<s, c>>] \/ (s = job[w].run /\ c = job[w].blob)
  BY <1>2 DEF Upl!IInv, Upl!TypeOK, Upl!Docs
<1>7. Upl!JobOK(j)'
  <2>1. j.blob \in j.todo
    BY <1>2, <1>3 DEF Upl!JobOK, Upl!Stages
  <2>2. ~j.errors => \A c \in Blobs \ Rejected : c \in j.todo \/ Upl!Settled(j.run, c)'
    BY <1>2, <1>3, <1>6, <2>1, StillLeft DEF Upl!IInv, Upl!Stages
  <2> QED BY <1>3, <1>4, <1>6, <2>1, <2>2 DEF Upl!JobOK
<1>8. \A b \in Blobs : blob'[b] = "rejected" => blob[b] = "rejected"
  BY <1>2 DEF Upl!IInv, Upl!TypeOK
<1> QED BY <1>1, <1>2, <1>3, <1>5, <1>6, <1>7, <1>8, UploadStep

LEMMA UploadChunk == ASSUME Upl!IInv, NEW w \in Workers, Upl!Chunk(w) PROVE Upl!IInv'
<1>1. PICK j : job' = [job EXCEPT ![w] = j] /\ j = [job[w] EXCEPT !.at = IF job[w].blob \in Empty THEN "done" ELSE "vectorize"]
  BY DEF Upl!Chunk, Upl!Become
<1>2. /\ UNCHANGED <<batch, blob, points, indexed, run, lock, linked, dead, faults>> /\ job[w].at = "chunk"
      /\ job[w] \in Upl!Job /\ job[w] # Upl!Idle /\ job[w].run \in Upl!Runs /\ job[w].blob \in Blobs
      /\ \A k \in job[w].held \ job[w].lapsed : lock[k] = job[w].run
      /\ Upl!JobOK(job[w]) /\ <<job[w].run, job[w].blob>> \in Upl!Docs
  BY UploadAttempt DEF Upl!Chunk, Upl!Mine, Upl!Stages
<1>3. /\ j \in Upl!Job /\ j.at = (IF job[w].blob \in Empty THEN "done" ELSE "vectorize")
      /\ j.run = job[w].run /\ j.held = job[w].held
      /\ j.lapsed = job[w].lapsed /\ j.blob = job[w].blob /\ j.todo = job[w].todo
      /\ (j.errors <=> job[w].errors)
  BY <1>1, <1>2 DEF Upl!Job
<1>4. PICK row \in Upl!Document :
        /\ doc' = [doc EXCEPT ![<<job[w].run, job[w].blob>>] = row]
        /\ job[w].blob \in Empty => row.parse = "parsed"
  <2>1. /\ doc[<<job[w].run, job[w].blob>>] \in Upl!Document
        /\ doc[<<job[w].run, job[w].blob>>].parse = "parsed"
    BY <1>2 DEF Upl!JobOK, Upl!IInv, Upl!TypeOK
  <2>2. CASE job[w].blob \in Empty
    BY <1>2, <2>1, <2>2 DEF Upl!Chunk, Upl!IInv, Upl!TypeOK
  <2>3. CASE job[w].blob \notin Empty
    BY <1>2, <2>1, <2>3 DEF Upl!Chunk, Upl!Mine, Upl!Document
  <2> QED BY <2>2, <2>3
<1>5. Upl!TypeOK'
  BY <1>1, <1>2, <1>3, <1>4 DEF Upl!IInv, Upl!TypeOK
<1>6. /\ doc'[<<job[w].run, job[w].blob>>] = row /\ row # None
      /\ \A s \in Upl!Runs, c \in Blobs :
           doc'[<<s, c>>] = doc[<<s, c>>] \/ (s = job[w].run /\ c = job[w].blob)
  BY <1>2, <1>4, UploadsAssumption DEF Upl!IInv, Upl!TypeOK, Upl!Docs
<1>7. Upl!JobOK(j)'
  <2>1. j.blob \in j.todo
    BY <1>2, <1>3 DEF Upl!JobOK, Upl!Stages
  <2>2. ~j.errors => \A c \in Blobs \ Rejected : c \in j.todo \/ Upl!Settled(j.run, c)'
    BY <1>2, <1>3, <1>6, <2>1, StillLeft DEF Upl!IInv, Upl!Stages
  <2>3. j.at = "done" => Upl!Settled(j.run, j.blob)'
    BY <1>3, <1>4, <1>6 DEF Upl!Settled
  <2>4. j.at = "done" \/ (j.at = "vectorize" /\ j.blob \notin Empty)
    BY <1>3
  <2>5. doc'[<<j.run, j.blob>>] # None
    BY <1>3, <1>6
  <2> QED BY <2>1, <2>2, <2>3, <2>4, <2>5 DEF Upl!JobOK
<1>8. /\ j.run = job[w].run /\ j.at # "lock" /\ job[w].at # "end"
      /\ \A k \in j.held \ j.lapsed : lock'[k] = job[w].run
      /\ \A s \in Upl!Runs, c \in Blobs : doc'[<<s, c>>] = doc[<<s, c>>] \/ s = job[w].run
  BY <1>2, <1>3, <1>6
<1> QED BY <1>1, <1>2, <1>5, <1>7, <1>8, UploadStep

LEMMA UploadUpsert == ASSUME Upl!IInv, NEW w \in Workers, Upl!Upsert(w) PROVE Upl!IInv'
<1>1. PICK j : job' = [job EXCEPT ![w] = j] /\ j = [job[w] EXCEPT !.at = "mark"]
  BY DEF Upl!Upsert, Upl!Become
<1>2. /\ UNCHANGED <<batch, blob, doc, points, run, lock, linked, dead, faults>> /\ job[w].at = "vectorize"
      /\ job[w] \in Upl!Job /\ job[w] # Upl!Idle /\ job[w].run \in Upl!Runs /\ job[w].blob \in Blobs
      /\ \A k \in job[w].held \ job[w].lapsed : lock[k] = job[w].run
      /\ Upl!JobOK(job[w]) /\ indexed' = indexed \cup {<<job[w].run, job[w].blob>>}
      /\ <<job[w].run, job[w].blob>> \in Upl!Docs
  BY UploadAttempt DEF Upl!Upsert, Upl!Mine, Upl!Stages
<1>3. /\ j \in Upl!Job /\ j.at = "mark" /\ j.run = job[w].run /\ j.held = job[w].held
      /\ j.lapsed = job[w].lapsed /\ j.blob = job[w].blob /\ j.todo = job[w].todo
      /\ (j.errors <=> job[w].errors)
  BY <1>1, <1>2 DEF Upl!Job
<1>4. Upl!TypeOK'
  BY <1>1, <1>2, <1>3 DEF Upl!IInv, Upl!TypeOK
<1>5. Upl!JobOK(j)'
  <2>1. j.blob \in j.todo /\ j.blob \notin Empty /\ doc'[<<j.run, j.blob>>] # None
    BY <1>2, <1>3 DEF Upl!JobOK, Upl!Stages
  <2>2. ~j.errors => \A c \in Blobs \ Rejected : c \in j.todo \/ Upl!Settled(j.run, c)'
    BY <1>2, <1>3, <2>1, StillLeft DEF Upl!IInv, Upl!Stages
  <2> QED BY <1>3, <2>1, <2>2 DEF Upl!JobOK
<1> QED BY <1>1, <1>2, <1>3, <1>4, <1>5, UploadStep

LEMMA UploadMarkVectorized == ASSUME Upl!IInv, NEW w \in Workers, Upl!MarkVectorized(w) PROVE Upl!IInv'
<1>1. PICK j : job' = [job EXCEPT ![w] = j] /\ j = [job[w] EXCEPT !.at = "done"]
  BY DEF Upl!MarkVectorized, Upl!Become
<1>2. /\ UNCHANGED <<batch, blob, indexed, run, lock, linked, dead, faults>> /\ job[w].at = "mark"
      /\ job[w] \in Upl!Job /\ job[w] # Upl!Idle /\ job[w].run \in Upl!Runs /\ job[w].blob \in Blobs
      /\ \A k \in job[w].held \ job[w].lapsed : lock[k] = job[w].run
      /\ Upl!JobOK(job[w]) /\ <<job[w].run, job[w].blob>> \in Upl!Docs
      /\ points' = [points EXCEPT ![<<job[w].run, job[w].blob>>] = "vectorized"]
  BY UploadAttempt DEF Upl!MarkVectorized, Upl!Mine, Upl!Stages
<1>3. /\ j \in Upl!Job /\ j.at = "done" /\ j.run = job[w].run /\ j.held = job[w].held
      /\ j.lapsed = job[w].lapsed /\ j.blob = job[w].blob /\ j.todo = job[w].todo
      /\ (j.errors <=> job[w].errors)
  BY <1>1, <1>2 DEF Upl!Job
<1>4. PICK row \in Upl!Document :
        doc' = [doc EXCEPT ![<<job[w].run, job[w].blob>>] = row] /\ row.parse = "vectorized"
  <2>1. doc[<<job[w].run, job[w].blob>>] \in Upl!Document
    BY <1>2 DEF Upl!JobOK, Upl!IInv, Upl!TypeOK
  <2>2. PICK row : row = [doc[<<job[w].run, job[w].blob>>] EXCEPT !.parse = "vectorized"]
    OBVIOUS
  <2>3. row \in Upl!Document /\ row.parse = "vectorized"
    BY <2>1, <2>2 DEF Upl!Document
  <2>4. doc' = [doc EXCEPT ![<<job[w].run, job[w].blob>>] = row]
    BY <2>2 DEF Upl!MarkVectorized, Upl!Mine
  <2> QED BY <2>3, <2>4
<1>5. Upl!TypeOK'
  BY <1>1, <1>2, <1>3, <1>4 DEF Upl!IInv, Upl!TypeOK
<1>6. /\ doc'[<<job[w].run, job[w].blob>>] = row /\ row # None
      /\ \A s \in Upl!Runs, c \in Blobs :
           doc'[<<s, c>>] = doc[<<s, c>>] \/ (s = job[w].run /\ c = job[w].blob)
  BY <1>2, <1>4, UploadsAssumption DEF Upl!IInv, Upl!TypeOK, Upl!Docs
<1>7. Upl!JobOK(j)'
  <2>1. j.blob \in j.todo /\ j.blob \notin Empty
    BY <1>2, <1>3 DEF Upl!JobOK, Upl!Stages
  <2>2. Upl!Settled(j.run, j.blob)'
    BY <1>3, <1>4, <1>6, <2>1 DEF Upl!Settled
  <2>3. ~j.errors => \A c \in Blobs \ Rejected : c \in j.todo \/ Upl!Settled(j.run, c)'
    BY <1>2, <1>3, <1>6, <2>1, StillLeft DEF Upl!IInv, Upl!Stages
  <2> QED BY <1>3, <2>1, <2>2, <2>3 DEF Upl!JobOK
<1> QED BY <1>1, <1>2, <1>3, <1>5, <1>6, <1>7, UploadStep

LEMMA UploadStepRaises == ASSUME Upl!IInv, NEW w \in Workers, Upl!StepRaises(w) PROVE Upl!IInv'
<1>1. PICK j : job' = [job EXCEPT ![w] = j] /\ j = [job[w] EXCEPT !.at = "failing"]
  BY DEF Upl!StepRaises, Upl!Become
<1>2. /\ UNCHANGED <<batch, blob, doc, points, indexed, run, lock, linked, dead, faults>>
      /\ job[w].at \in Upl!Stages /\ job[w].at # "end"
      /\ job[w] \in Upl!Job /\ job[w] # Upl!Idle /\ job[w].run \in Upl!Runs /\ job[w].blob \in Blobs
      /\ \A k \in job[w].held \ job[w].lapsed : lock[k] = job[w].run
      /\ Upl!JobOK(job[w])
  BY UploadAttempt DEF Upl!StepRaises, Upl!Stages, Upl!rows
<1>3. /\ j \in Upl!Job /\ j.at = "failing" /\ j.run = job[w].run /\ j.held = job[w].held
      /\ j.lapsed = job[w].lapsed /\ j.blob = job[w].blob /\ j.todo = job[w].todo
      /\ (j.errors <=> job[w].errors)
  BY <1>1, <1>2 DEF Upl!Job
<1>4. Upl!TypeOK'
  BY <1>1, <1>2, <1>3 DEF Upl!IInv, Upl!TypeOK
<1>5. Upl!JobOK(j)'
  <2>1. j.blob \in j.todo
    BY <1>2, <1>3 DEF Upl!JobOK
  <2>2. ~j.errors => \A c \in Blobs \ Rejected : c \in j.todo \/ Upl!Settled(j.run, c)'
    BY <1>2, <1>3, <2>1, StillLeft DEF Upl!IInv
  <2> QED BY <1>3, <2>1, <2>2 DEF Upl!JobOK
<1> QED BY <1>1, <1>2, <1>3, <1>4, <1>5, UploadStep

(* The release of the parse lock, which is deleted for its owner only.     *)
LEMMA UploadLeaveBlob ==
  ASSUME Upl!IInv, NEW w \in Workers, job[w].at \in Upl!Stages,
         NEW i \in Upl!Job, i.run = job[w].run, i.blob = job[w].blob, i.todo = job[w].todo,
         i.held = job[w].held, i.lapsed = job[w].lapsed, Upl!LeaveBlob(w, i)
  PROVE  \E j \in Upl!Job :
           /\ job' = [job EXCEPT ![w] = j] /\ j.at = "next" /\ j.run = job[w].run
           /\ j.todo = job[w].todo \ {job[w].blob} /\ (j.errors <=> i.errors)
           /\ \A k \in j.held \ j.lapsed : lock'[k] = job[w].run
           /\ \A k \in Upl!Keys : lock'[k] = lock[k] \/ lock[k] = job[w].run
           /\ lock' \in [Upl!Keys -> Upl!Runs \cup {None}]
<1>1. PICK j : /\ job' = [job EXCEPT ![w] = j]
               /\ j = [i EXCEPT !.at = "next", !.todo = @ \ {job[w].blob}, !.held = @ \ {job[w].blob},
                         !.lapsed = @ \ {job[w].blob}, !.blob = None, !.locking = FALSE]
  BY DEF Upl!LeaveBlob, Upl!Become
<1>2. /\ j \in Upl!Job /\ j.at = "next" /\ j.run = i.run /\ j.todo = i.todo \ {job[w].blob}
      /\ j.held = i.held \ {job[w].blob} /\ j.lapsed = i.lapsed \ {job[w].blob}
      /\ (j.errors <=> i.errors)
  BY <1>1 DEF Upl!Job
<1>3. lock' = [k \in Upl!Keys |->
        IF k \in (IF job[w].locking THEN {job[w].blob} ELSE {}) /\ w \in linked /\ lock[k] = job[w].run
          THEN None ELSE lock[k]]
  BY DEF Upl!LeaveBlob, Upl!Released
<1>4. \A k \in Upl!Keys : lock'[k] = lock[k] \/ (k = job[w].blob /\ lock[k] = job[w].run /\ lock'[k] = None)
  BY <1>3
<1>5. lock' \in [Upl!Keys -> Upl!Runs \cup {None}]
  BY <1>3, <1>4 DEF Upl!IInv, Upl!TypeOK
<1>6. \A k \in j.held \ j.lapsed : lock'[k] = job[w].run
  <2>1. \A k \in job[w].held \ job[w].lapsed : lock[k] = job[w].run /\ k \in Upl!Keys
    BY UploadAttempt DEF Upl!Job
  <2> QED BY <1>2, <1>4, <2>1
<1> QED BY <1>1, <1>2, <1>4, <1>5, <1>6

LEMMA UploadFinishBlob == ASSUME Upl!IInv, NEW w \in Workers, Upl!FinishBlob(w) PROVE Upl!IInv'
<1>1. /\ UNCHANGED <<batch, blob, doc, points, indexed, run, linked, dead, faults>> /\ job[w].at = "done"
      /\ job[w] \in Upl!Job /\ job[w] # Upl!Idle /\ job[w].run \in Upl!Runs /\ job[w].at \in Upl!Stages
      /\ Upl!JobOK(job[w]) /\ Upl!Settled(job[w].run, job[w].blob)
  BY UploadAttempt DEF Upl!FinishBlob, Upl!Stages, Upl!rows, Upl!JobOK
<1>2. PICK i : i = [job[w] EXCEPT !.documents = TRUE] /\ Upl!LeaveBlob(w, i)
  BY DEF Upl!FinishBlob
<1>3. /\ i \in Upl!Job /\ i.run = job[w].run /\ i.blob = job[w].blob /\ i.todo = job[w].todo
      /\ i.held = job[w].held /\ i.lapsed = job[w].lapsed /\ (i.errors <=> job[w].errors)
  BY <1>1, <1>2 DEF Upl!Job
<1>4. PICK j \in Upl!Job :
        /\ job' = [job EXCEPT ![w] = j] /\ j.at = "next" /\ j.run = job[w].run
        /\ j.todo = job[w].todo \ {job[w].blob} /\ (j.errors <=> i.errors)
        /\ \A k \in j.held \ j.lapsed : lock'[k] = job[w].run
        /\ \A k \in Upl!Keys : lock'[k] = lock[k] \/ lock[k] = job[w].run
        /\ lock' \in [Upl!Keys -> Upl!Runs \cup {None}]
  BY <1>1, <1>2, <1>3, UploadLeaveBlob
<1>5. Upl!TypeOK'
  BY <1>1, <1>4 DEF Upl!IInv, Upl!TypeOK
<1>6. Upl!JobOK(j)'
  <2>1. PICK k \in Upl!Job : k = job[w]
    BY <1>1
  <2>2. Upl!Settled(k.run, k.blob)' /\ \A c \in Blobs : doc'[<<k.run, c>>] = doc[<<k.run, c>>]
    BY <1>1, <2>1 DEF Upl!Settled
  <2>3. j.run = k.run /\ (j.errors <=> k.errors) /\ k.todo \subseteq j.todo \cup {k.blob} /\ Upl!JobOK(k)
        /\ k.at \in Upl!Stages
    BY <1>1, <1>3, <1>4, <2>1
  <2>4. ~j.errors => \A c \in Blobs \ Rejected : c \in j.todo \/ Upl!Settled(j.run, c)'
    BY <2>2, <2>3, StillLeft DEF Upl!IInv
  <2> QED BY <1>4, <2>4 DEF Upl!JobOK, Upl!Stages
<1> QED BY <1>1, <1>4, <1>5, <1>6, UploadStep

LEMMA UploadFailBlob == ASSUME Upl!IInv, NEW w \in Workers, Upl!FailBlob(w) PROVE Upl!IInv'
<1>1. /\ UNCHANGED <<batch, indexed, run, linked, dead, faults>> /\ job[w].at = "failing"
      /\ job[w] \in Upl!Job /\ job[w] # Upl!Idle /\ job[w].run \in Upl!Runs /\ job[w].at \in Upl!Stages
      /\ job[w].blob \in Blobs /\ <<job[w].run, job[w].blob>> \in Upl!Docs
      /\ blob' = [blob EXCEPT ![job[w].blob] = "failed"]
  BY UploadAttempt DEF Upl!FailBlob, Upl!Stages, Upl!Mine
<1>2. PICK i : i = [job[w] EXCEPT !.errors = TRUE] /\ Upl!LeaveBlob(w, i)
  BY DEF Upl!FailBlob
<1>3. /\ i \in Upl!Job /\ i.run = job[w].run /\ i.blob = job[w].blob /\ i.todo = job[w].todo
      /\ i.held = job[w].held /\ i.lapsed = job[w].lapsed /\ i.errors
  BY <1>1, <1>2 DEF Upl!Job
<1>4. PICK j \in Upl!Job :
        /\ job' = [job EXCEPT ![w] = j] /\ j.at = "next" /\ j.run = job[w].run
        /\ j.todo = job[w].todo \ {job[w].blob} /\ (j.errors <=> i.errors)
        /\ \A k \in j.held \ j.lapsed : lock'[k] = job[w].run
        /\ \A k \in Upl!Keys : lock'[k] = lock[k] \/ lock[k] = job[w].run
        /\ lock' \in [Upl!Keys -> Upl!Runs \cup {None}]
  BY <1>1, <1>2, <1>3, UploadLeaveBlob
<1>5. PICK row \in Upl!Document \cup {None} : doc' = [doc EXCEPT ![<<job[w].run, job[w].blob>>] = row]
  <2> DEFINE m == <<job[w].run, job[w].blob>>
  <2>1. CASE doc[m] = None
    BY <1>1, <2>1 DEF Upl!FailBlob, Upl!Mine, Upl!IInv, Upl!TypeOK
  <2>2. CASE doc[m] # None
    <3>1. PICK row : row = [doc[m] EXCEPT !.parse = "failed"]
      OBVIOUS
    <3>2. row \in Upl!Document
      BY <1>1, <2>2, <3>1 DEF Upl!Document, Upl!IInv, Upl!TypeOK
    <3>3. doc' = [doc EXCEPT ![m] = row]
      BY <2>2, <3>1 DEF Upl!FailBlob, Upl!Mine
    <3> QED BY <3>2, <3>3
  <2> QED BY <2>1, <2>2
<1>6. \A s \in Upl!Runs, c \in Blobs : doc'[<<s, c>>] = doc[<<s, c>>] \/ s = job[w].run
  BY <1>1, <1>5 DEF Upl!IInv, Upl!TypeOK, Upl!Docs
<1>7. points' \in [Upl!Docs -> {None, "vectorized", "failed"}]
  BY <1>1 DEF Upl!FailBlob, Upl!Mine, Upl!IInv, Upl!TypeOK
<1>8. Upl!TypeOK'
  BY <1>1, <1>4, <1>5, <1>7 DEF Upl!IInv, Upl!TypeOK
<1>9. Upl!JobOK(j)'
  BY <1>3, <1>4 DEF Upl!JobOK, Upl!Stages
<1>10. \A b \in Blobs : blob'[b] = "rejected" => blob[b] = "rejected"
  BY <1>1 DEF Upl!IInv, Upl!TypeOK
<1> QED BY <1>1, <1>4, <1>6, <1>8, <1>9, <1>10, UploadStep

(* The status is that of a run with nothing left.                          *)
LEMMA UploadFinishBatch == ASSUME Upl!IInv, NEW w \in Workers, Upl!FinishBatch(w) PROVE Upl!IInv'
<1> USE DEF Upl!IInv
<1>1. PICK j : job' = [job EXCEPT ![w] = j] /\ j = [job[w] EXCEPT !.at = "end"]
  BY DEF Upl!FinishBatch, Upl!Become
<1>2. /\ UNCHANGED <<blob, doc, points, indexed, run, lock, linked, dead, faults>> /\ job[w].at = "next"
      /\ job[w] \in Upl!Job /\ job[w] # Upl!Idle /\ job[w].run \in Upl!Runs /\ job[w].todo = {}
      /\ \A k \in job[w].held \ job[w].lapsed : lock[k] = job[w].run
      /\ Upl!JobOK(job[w]) /\ batch' = Upl!BatchStatus(job[w])
  BY UploadJob DEF Upl!FinishBatch
<1>3. /\ j \in Upl!Job /\ j.at = "end" /\ j.run = job[w].run /\ j.held = job[w].held
      /\ j.lapsed = job[w].lapsed
  BY <1>1, <1>2 DEF Upl!Job
<1>4. Upl!TypeOK'
  BY <1>1, <1>2, <1>3 DEF Upl!TypeOK, Upl!BatchStatus
<1>5. Upl!Owners'
  BY <1>1, <1>2, <1>3, OwnersStep
<1>6. Upl!LocksHold'
  BY <1>1, <1>2, <1>3, LocksStep
<1>7. Upl!JobOK(j)'
  BY <1>3 DEF Upl!JobOK, Upl!Stages
<1>8. \A v \in Workers : Upl!JobOK(job[v])'
  BY <1>1, <1>2, <1>7, DocumentsStep
<1>9. Upl!SuccessStands'
  <2> SUFFICES ASSUME batch' = "succeeded" PROVE Upl!SuccessStands'
    BY DEF Upl!SuccessStands
  <2>1. ~job[w].errors
    BY <1>2 DEF Upl!BatchStatus
  <2>2. \A b \in Blobs \ Rejected : Upl!Settled(job[w].run, b)
    BY <1>2, <2>1 DEF Upl!JobOK
  <2>3. PICK r \in Upl!Runs : r = job[w].run
    BY <1>2
  <2>4. run'[r] # None /\ \A b \in Blobs \ Rejected : Upl!Settled(r, b)'
    BY <1>2, <2>2, <2>3 DEF Upl!Settled, Upl!Owners
  <2>5. \A v \in Workers : job'[v] # Upl!Idle /\ job'[v].run = r => job'[v].at = "end"
    BY <1>1, <1>2, <1>3, <2>3 DEF Upl!TypeOK, Upl!Owners
  <2> QED BY <2>4, <2>5 DEF Upl!SuccessStands
<1>10. \A b \in Blobs : blob'[b] = "rejected" => b \in Rejected
  BY <1>2
<1> QED BY <1>4, <1>5, <1>6, <1>8, <1>9, <1>10

(* The task ends: its run is settled and what is left of its locks deleted.*)
LEMMA UploadEnd ==
  ASSUME Upl!IInv, NEW w \in Workers,
         Upl!SkipLocked(w) \/ Upl!EndTask(w) \/ Upl!TaskRaises(w) \/ Upl!Crash(w)
  PROVE  Upl!IInv'
<1>1. /\ UNCHANGED <<batch, blob, doc, points, indexed>> /\ job' = [job EXCEPT ![w] = Upl!Idle]
      /\ linked' \subseteq Workers /\ faults' \in 0 .. MaxFaults
      /\ job[w] # Upl!Idle
  BY UploadsAssumption DEF Upl!SkipLocked, Upl!EndTask, Upl!TaskRaises, Upl!Crash, Upl!EndRun, Upl!Become,
     Upl!rows, Upl!Fault, Upl!IInv, Upl!TypeOK, Upl!Idle
<1>2. job[w].run \in Upl!Runs
  BY <1>1 DEF Upl!IInv, Upl!TypeOK, Upl!Job
<1>3. dead' \subseteq Upl!Runs
  BY <1>1, <1>2 DEF Upl!SkipLocked, Upl!EndTask, Upl!TaskRaises, Upl!Crash, Upl!EndRun, Upl!IInv, Upl!TypeOK
<1>4. /\ run' \in [Upl!Runs -> Upl!TaskStatus \cup {None}]
      /\ \A r \in Upl!Runs : run[r] # None => run'[r] # None
  BY <1>2, UploadsAssumption
     DEF Upl!SkipLocked, Upl!EndTask, Upl!TaskRaises, Upl!Crash, Upl!EndRun, Upl!IInv, Upl!TypeOK, Upl!TaskStatus
<1>5. /\ \A k \in Upl!Keys : lock'[k] = lock[k] \/ lock[k] = job[w].run
      /\ lock' \in [Upl!Keys -> Upl!Runs \cup {None}]
  <2>1. lock' = lock \/ lock' = Upl!Released(w, job[w].held)
    BY DEF Upl!SkipLocked, Upl!EndTask, Upl!TaskRaises, Upl!Crash, Upl!EndRun
  <2> QED BY <2>1 DEF Upl!Released, Upl!IInv, Upl!TypeOK
<1>6. Upl!TypeOK'
  BY <1>1, <1>3, <1>4, <1>5 DEF Upl!IInv, Upl!TypeOK
<1>7. Upl!JobOK(Upl!Idle)'
  BY DEF Upl!JobOK, Upl!Idle, Upl!Stages
<1> QED BY <1>1, <1>4, <1>5, <1>6, <1>7, UploadStep

LEMMA UploadDegrade == ASSUME Upl!IInv, NEW w \in Workers, Upl!Degrade(w) PROVE Upl!IInv'
<1>1. /\ UNCHANGED <<batch, blob, doc, points, indexed, run, lock, job, dead>>
      /\ linked' \subseteq Workers /\ faults' \in 0 .. MaxFaults
  BY UploadsAssumption DEF Upl!Degrade, Upl!Fault, Upl!rows, Upl!IInv, Upl!TypeOK
<1> QED BY <1>1 DEF Upl!IInv, Upl!TypeOK, Upl!Owners, Upl!LocksHold, Upl!SuccessStands, Upl!JobOK, Upl!Settled

(* Whoever still counts on the lock that expires is told by the history.   *)
LEMMA UploadExpire == ASSUME Upl!IInv, NEW k \in Upl!Keys, Upl!Expire(k) PROVE Upl!IInv'
<1> USE DEF Upl!IInv
<1>1. /\ UNCHANGED <<batch, blob, doc, points, indexed, run, linked, dead>>
      /\ lock' = [lock EXCEPT ![k] = None] /\ faults' \in 0 .. MaxFaults
      /\ job' = [w \in Workers |->
              IF job[w] # Upl!Idle /\ job[w].run = lock[k] /\ k \in job[w].held
                THEN [job[w] EXCEPT !.lapsed = @ \cup {k}] ELSE job[w]]
  BY UploadsAssumption DEF Upl!Expire, Upl!Fault, Upl!rows, Upl!TypeOK
<1>2. ASSUME NEW w \in Workers, job[w] # Upl!Idle
      PROVE  /\ job'[w] \in Upl!Job /\ job'[w].at = job[w].at /\ job'[w].run = job[w].run
             /\ job'[w].blob = job[w].blob /\ job'[w].todo = job[w].todo /\ job'[w].held = job[w].held
             /\ (job'[w].errors <=> job[w].errors) /\ job[w] \in Upl!Job
             /\ job'[w].lapsed = IF job[w].run = lock[k] /\ k \in job[w].held
                                   THEN job[w].lapsed \cup {k} ELSE job[w].lapsed
  <2>1. job[w] \in Upl!Job
    BY <1>2 DEF Upl!TypeOK
  <2>2. CASE job[w].run = lock[k] /\ k \in job[w].held
    <3>1. job'[w] = [job[w] EXCEPT !.lapsed = @ \cup {k}]
      BY <1>1, <1>2, <2>2
    <3> QED BY <2>1, <2>2, <3>1 DEF Upl!Job
  <2>3. CASE ~(job[w].run = lock[k] /\ k \in job[w].held)
    BY <1>1, <1>2, <2>1, <2>3
  <2> QED BY <2>2, <2>3
<1>3. \A w \in Workers : job[w] = Upl!Idle => job'[w] = Upl!Idle
  BY <1>1
<1>4. \A i \in Upl!Job : i # Upl!Idle
  BY DEF Upl!Job, Upl!Idle
<1>5. Upl!TypeOK'
  <2>1. job' \in [Workers -> Upl!Job \cup {Upl!Idle}]
    BY <1>1, <1>2, <1>3
  <2> QED BY <1>1, <2>1 DEF Upl!TypeOK
<1>6. Upl!Owners'
  BY <1>1, <1>2, <1>3, <1>4 DEF Upl!Owners
<1>7. Upl!LocksHold'
  BY <1>1, <1>2, <1>3, <1>4 DEF Upl!LocksHold, Upl!TypeOK, Upl!Job
<1>8. Upl!SuccessStands'
  <2> SUFFICES ASSUME batch = "succeeded" PROVE Upl!SuccessStands'
    BY <1>1 DEF Upl!SuccessStands
  <2>1. PICK r \in Upl!Runs :
          /\ run[r] # None /\ \A b \in Blobs \ Rejected : Upl!Settled(r, b)
          /\ \A w \in Workers : job[w] # Upl!Idle /\ job[w].run = r => job[w].at = "end"
    BY DEF Upl!SuccessStands
  <2>2. \A b \in Blobs \ Rejected : Upl!Settled(r, b)'
    BY <1>1, <2>1 DEF Upl!Settled
  <2> QED BY <1>1, <1>2, <1>3, <2>1, <2>2 DEF Upl!SuccessStands
<1>9. ASSUME NEW w \in Workers PROVE Upl!JobOK(job[w])'
  <2>1. PICK i : i = job'[w]
    OBVIOUS
  <2>2. CASE job[w] = Upl!Idle
    BY <1>3, <2>2 DEF Upl!JobOK, Upl!Idle, Upl!Stages
  <2>3. CASE job[w] # Upl!Idle
    <3>1. Upl!JobOK(job[w])
      OBVIOUS
    <3> QED BY <1>1, <1>2, <2>3, <3>1 DEF Upl!JobOK, Upl!Settled
  <2> QED BY <2>2, <2>3
<1>10. \A b \in Blobs : blob'[b] = "rejected" => b \in Rejected
  BY <1>1
<1> QED BY <1>5, <1>6, <1>7, <1>8, <1>9, <1>10

LEMMA UploadNext == Upl!IInv /\ [Upl!Next]_(Upl!vars) => Upl!IInv'
<1> SUFFICES ASSUME Upl!IInv, [Upl!Next]_(Upl!vars) PROVE Upl!IInv'
  OBVIOUS
<1>1. CASE UNCHANGED Upl!vars
  BY <1>1 DEF Upl!vars, Upl!IInv, Upl!TypeOK, Upl!Owners, Upl!LocksHold, Upl!SuccessStands, Upl!JobOK, Upl!Settled
<1>2. ASSUME NEW w \in Workers, Upl!Work(w) PROVE Upl!IInv'
  BY <1>2, UploadTakeBatchLock, UploadListBlobs, UploadTakeParseLock, UploadAlreadyParsed, UploadSaveDocument,
     UploadChunk, UploadUpsert, UploadMarkVectorized, UploadFinishBlob, UploadStepRaises, UploadFailBlob,
     UploadFinishBatch, UploadEnd DEF Upl!Work
<1>3. ASSUME NEW w \in Workers, Upl!Crash(w) PROVE Upl!IInv'
  BY <1>3, UploadEnd
<1> QED BY <1>1, <1>2, <1>3, UploadReceive, UploadDegrade, UploadExpire DEF Upl!Next

-----------------------------------------------------------------------------
(* In a finite set with a strict order of all its elements, the number of  *)
(* those before an element is its place.                                   *)
Orders(R, S) ==
  /\ \A x \in S : <<x, x>> \notin R
  /\ \A x, y, z \in S : <<x, y>> \in R /\ <<y, z>> \in R => <<x, z>> \in R
  /\ \A x, y \in S : x # y => <<x, y>> \in R \/ <<y, x>> \in R

LEMMA PlaceGrows ==
  ASSUME NEW S, IsFiniteSet(S), NEW R, Orders(R, S)
  PROVE  /\ Cardinality(S) \in Nat
         /\ \A x \in S : Cardinality(Hyb!Before(S, R, x)) \in 0 .. Cardinality(S) - 1
         /\ \A x, y \in S : <<x, y>> \in R => Cardinality(Hyb!Before(S, R, x)) < Cardinality(Hyb!Before(S, R, y))
<1>1. Cardinality(S) \in Nat
  BY FS_CardinalityType
<1>2. ASSUME NEW T \in SUBSET S, NEW U \in SUBSET S, T \subseteq U, T # U
      PROVE  Cardinality(T) \in Nat /\ Cardinality(U) \in Nat /\ Cardinality(T) < Cardinality(U)
  <2>1. IsFiniteSet(T) /\ IsFiniteSet(U)
    BY FS_Subset
  <2>2. Cardinality(T) \in Nat /\ Cardinality(U) \in Nat
    BY <2>1, FS_CardinalityType
  <2>3. Cardinality(T) <= Cardinality(U) /\ Cardinality(U) # Cardinality(T)
    BY <1>2, <2>1, FS_Subset
  <2> QED BY <2>2, <2>3
<1>3. ASSUME NEW x \in S PROVE Cardinality(Hyb!Before(S, R, x)) \in 0 .. Cardinality(S) - 1
  <2>1. Hyb!Before(S, R, x) \in SUBSET S /\ Hyb!Before(S, R, x) # S /\ S \in SUBSET S
    BY DEF Hyb!Before, Orders
  <2>2. Cardinality(Hyb!Before(S, R, x)) \in Nat /\ Cardinality(Hyb!Before(S, R, x)) < Cardinality(S)
    BY <1>2, <2>1
  <2> QED BY <1>1, <2>2
<1>4. ASSUME NEW x \in S, NEW y \in S, <<x, y>> \in R
      PROVE  Cardinality(Hyb!Before(S, R, x)) < Cardinality(Hyb!Before(S, R, y))
  <2>1. Hyb!Before(S, R, x) \in SUBSET S /\ Hyb!Before(S, R, y) \in SUBSET S
    BY DEF Hyb!Before
  <2>2. Hyb!Before(S, R, x) \subseteq Hyb!Before(S, R, y)
    BY <1>4 DEF Hyb!Before, Orders
  <2>3. x \in Hyb!Before(S, R, y) /\ x \notin Hyb!Before(S, R, x)
    BY <1>4 DEF Hyb!Before, Orders
  <2> QED BY <1>2, <2>1, <2>2, <2>3
<1> QED BY <1>1, <1>3, <1>4

(* Every place is taken.                                                   *)
LEMMA PlaceTaken ==
  ASSUME NEW S, IsFiniteSet(S), NEW R, Orders(R, S), NEW n \in 1 .. Cardinality(S)
  PROVE  \E x \in S : Cardinality(Hyb!Before(S, R, x)) = n - 1
<1>1. PICK m : m = Cardinality(S)
  OBVIOUS
<1>2. m \in Nat
  BY <1>1, PlaceGrows
<1>3. PICK f : f = [x \in S |-> Cardinality(Hyb!Before(S, R, x)) + 1]
  OBVIOUS
<1>4. f \in [S -> 1 .. m]
  <2>1. ASSUME NEW x \in S PROVE f[x] \in 1 .. m
    <3>1. Cardinality(Hyb!Before(S, R, x)) \in 0 .. m - 1
      BY <1>1, PlaceGrows
    <3>2. f[x] = Cardinality(Hyb!Before(S, R, x)) + 1
      BY <1>3
    <3> QED BY <1>2, <3>1, <3>2
  <2> QED BY <1>3, <2>1
<1>5. ASSUME NEW x \in S, NEW y \in S, f[x] = f[y] PROVE x = y
  <2>1. Cardinality(Hyb!Before(S, R, x)) \in 0 .. m - 1 /\ Cardinality(Hyb!Before(S, R, y)) \in 0 .. m - 1
    BY <1>1, PlaceGrows
  <2>2. f[x] = Cardinality(Hyb!Before(S, R, x)) + 1 /\ f[y] = Cardinality(Hyb!Before(S, R, y)) + 1
    BY <1>3
  <2>3. Cardinality(Hyb!Before(S, R, x)) = Cardinality(Hyb!Before(S, R, y))
    <3>1. PICK a, b : a = Cardinality(Hyb!Before(S, R, x)) /\ b = Cardinality(Hyb!Before(S, R, y))
      OBVIOUS
    <3>2. a \in 0 .. m - 1 /\ b \in 0 .. m - 1 /\ a + 1 = b + 1
      BY <1>5, <2>1, <2>2, <3>1
    <3> QED BY <1>2, <3>1, <3>2
  <2>4. <<x, y>> \notin R /\ <<y, x>> \notin R
    <3>1. <<x, y>> \in R => Cardinality(Hyb!Before(S, R, x)) < Cardinality(Hyb!Before(S, R, y))
      BY PlaceGrows
    <3>2. <<y, x>> \in R => Cardinality(Hyb!Before(S, R, y)) < Cardinality(Hyb!Before(S, R, x))
      BY PlaceGrows
    <3> QED BY <1>2, <2>1, <2>3, <3>1, <3>2
  <2> QED BY <2>4 DEF Orders
<1>6. f \in Injection(S, 1 .. m)
  BY <1>4, <1>5 DEF Injection, IsInjective
<1>7. IsFiniteSet(1 .. m) /\ Cardinality(1 .. m) = m
  BY <1>2, FS_Interval
<1>8. f \in Surjection(S, 1 .. m)
  BY <1>1, <1>6, <1>7, FS_Injection
<1>9. PICK x \in S : f[x] = n
  BY <1>1, <1>8 DEF Surjection
<1>10. Cardinality(Hyb!Before(S, R, x)) \in 0 .. m - 1 /\ f[x] = Cardinality(Hyb!Before(S, R, x)) + 1
  BY <1>1, <1>3, PlaceGrows
<1> QED BY <1>2, <1>9, <1>10

(* The instance counts as every module does.                               *)
LEMMA SameCount == ASSUME NEW S PROVE Hyb!Cardinality(S) = Cardinality(S)
  BY DEF Hyb!Cardinality, Cardinality

(* So InOrder names every element, each once and in the order.             *)
LEMMA InOrderIs ==
  ASSUME NEW S, IsFiniteSet(S), NEW R, Orders(R, S), NEW t, t = Hyb!InOrder(S, R)
  PROVE  /\ Cardinality(S) \in Nat /\ t \in [1 .. Cardinality(S) -> S]
         /\ \A x \in S : \E n \in 1 .. Cardinality(S) : t[n] = x
         /\ \A m, n \in 1 .. Cardinality(S) : t[m] = t[n] => m = n
         /\ \A m, n \in 1 .. Cardinality(S) : <<t[m], t[n]>> \in R <=> m < n
<1>1. PICK c : c = Cardinality(S)
  OBVIOUS
<1>2. c \in Nat
  BY <1>1, PlaceGrows
<1>10. ASSUME NEW n \in 1 .. c PROVE t[n] \in S /\ Cardinality(Hyb!Before(S, R, t[n])) = n - 1
  <2>1. \E x \in S : Cardinality(Hyb!Before(S, R, x)) = n - 1
    BY <1>1, PlaceTaken
  <2>2. t[n] = CHOOSE x \in S : Cardinality(Hyb!Before(S, R, x)) = n - 1
    <3>1. t = [k \in 1 .. c |-> CHOOSE x \in S : Hyb!Cardinality(Hyb!Before(S, R, x)) = k - 1]
      BY <1>1, SameCount DEF Hyb!InOrder
    <3>2. t[n] = CHOOSE x \in S : Hyb!Cardinality(Hyb!Before(S, R, x)) = n - 1
      BY <3>1
    <3> QED BY <3>2, SameCount
  <2> QED BY <2>1, <2>2
<1>3. ASSUME NEW m \in 1 .. c, NEW n \in 1 .. c PROVE (t[m] = t[n] => m = n) /\ (<<t[m], t[n]>> \in R => m < n)
  <2>1. t[m] \in S /\ t[n] \in S /\ Cardinality(Hyb!Before(S, R, t[m])) = m - 1 /\ Cardinality(Hyb!Before(S, R, t[n])) = n - 1
    BY <1>10
  <2>2. <<t[m], t[n]>> \in R => Cardinality(Hyb!Before(S, R, t[m])) < Cardinality(Hyb!Before(S, R, t[n]))
    BY <2>1, PlaceGrows
  <2>3. <<t[m], t[n]>> \in R => m < n
    BY <1>2, <2>1, <2>2
  <2>4. t[m] = t[n] => m = n
    <3>1. t[m] = t[n] => m - 1 = n - 1
      BY <2>1
    <3> QED BY <1>2, <3>1
  <2> QED BY <2>3, <2>4
<1>4. ASSUME NEW m \in 1 .. c, NEW n \in 1 .. c, m < n PROVE <<t[m], t[n]>> \in R
  <2>1. t[m] # t[n]
    <3>1. t[m] = t[n] => m = n
      BY <1>3
    <3> QED BY <1>2, <1>4, <3>1
  <2>2. t[m] \in S /\ t[n] \in S
    BY <1>10
  <2>3. <<t[m], t[n]>> \in R \/ <<t[n], t[m]>> \in R
    BY <2>1, <2>2 DEF Orders
  <2>4. <<t[n], t[m]>> \in R => n < m
    BY <1>3
  <2> QED BY <1>2, <1>4, <2>3, <2>4
<1>5. ASSUME NEW x \in S PROVE \E n \in 1 .. c : t[n] = x
  <2>1. PICK b : b = Cardinality(Hyb!Before(S, R, x))
    OBVIOUS
  <2>2. b \in 0 .. c - 1
    BY <1>1, <2>1, PlaceGrows
  <2>3. PICK n \in 1 .. c : n = b + 1
    BY <1>2, <2>2
  <2>4. t[n] \in S /\ Cardinality(Hyb!Before(S, R, t[n])) = n - 1
    BY <1>10
  <2>5. Cardinality(Hyb!Before(S, R, t[n])) = b
    BY <1>2, <2>2, <2>3, <2>4
  <2>6. t[n] = x
    <3>1. <<t[n], x>> \in R => Cardinality(Hyb!Before(S, R, t[n])) < b
      BY <2>1, <2>4, PlaceGrows
    <3>2. <<x, t[n]>> \in R => b < Cardinality(Hyb!Before(S, R, t[n]))
      BY <2>1, <2>4, PlaceGrows
    <3>3. <<t[n], x>> \notin R /\ <<x, t[n]>> \notin R
      BY <1>2, <2>2, <2>5, <3>1, <3>2
    <3> QED BY <2>4, <3>3 DEF Orders
  <2> QED BY <2>6
<1>6. t \in [1 .. c -> S]
  BY <1>1, <1>10, SameCount DEF Hyb!InOrder
<1> QED BY <1>1, <1>2, <1>3, <1>4, <1>5, <1>6

(* Positions in their order, and what stands at them.                      *)
HitsPicked(s, P, k, pos) ==
  /\ pos \in [1 .. k -> P]
  /\ \A i, j \in 1 .. k : i < j <=> pos[i] < pos[j]
  /\ Hyb!Picked(s, P) = [i \in 1 .. k |-> s[pos[i]]]

LEMMA PickedHits ==
  ASSUME NEW s, NEW n \in Nat, NEW P, P \subseteq 1 .. n
  PROVE  \E k \in 0 .. n : \E pos : HitsPicked(s, P, k, pos)
<1>1. IsFiniteSet(1 .. n) /\ Cardinality(1 .. n) = n
  BY FS_Interval
<1>2. IsFiniteSet(P) /\ Cardinality(P) <= n
  BY <1>1, FS_Subset
<1>3. PICK k : k = Cardinality(P)
  OBVIOUS
<1>4. k \in Nat /\ k <= n
  BY <1>2, <1>3, FS_CardinalityType
<1>5. PICK R : R = {pair \in P \X P : pair[1] < pair[2]}
  OBVIOUS
<1>6. \A x, y \in P : <<x, y>> \in R <=> x < y
  BY <1>5
<1>7. Orders(R, P)
  <2>1. P \subseteq Int
    OBVIOUS
  <2> QED BY <1>6, <2>1 DEF Orders
<1>8. PICK pos : pos = Hyb!InOrder(P, R)
  OBVIOUS
<1>12. /\ pos \in [1 .. k -> P]
       /\ \A x \in P : \E i \in 1 .. k : pos[i] = x
       /\ \A i, j \in 1 .. k : <<pos[i], pos[j]>> \in R <=> i < j
  BY <1>2, <1>3, <1>7, <1>8, InOrderIs
<1>14. Hyb!Picked(s, P) = [i \in 1 .. k |-> s[pos[i]]]
  BY <1>5, <1>8, <1>12 DEF Hyb!Picked
<1>15. \A i, j \in 1 .. k : i < j <=> pos[i] < pos[j]
  BY <1>6, <1>12
<1>16. HitsPicked(s, P, k, pos)
  BY <1>12, <1>14, <1>15 DEF HitsPicked
<1> QED BY <1>4, <1>16

-----------------------------------------------------------------------------
(* The common denominator of the ranks is a number.                        *)
ScaleUpTo(product, n) == product = [r \in 0 .. n |-> IF r = 0 THEN 1 ELSE product[r - 1] * (RrfK + r)]

LEMMA ScaleExists ==
  ASSUME NEW n \in Nat
  PROVE  \E product : ScaleUpTo(product, n)
<1>1. PICK S : S = {m \in Nat : ~ \E product : ScaleUpTo(product, m)}
  OBVIOUS
<1>2. SUFFICES ASSUME S # {} PROVE FALSE
  BY <1>1
<1>3. S \subseteq Nat
  BY <1>1
<1>4. PICK m \in S : \A k \in S : m <= k
  BY <1>2, <1>3, LeastNumber
<1>5. m \in Nat /\ ~ \E product : ScaleUpTo(product, m)
  BY <1>1
<1>6. CASE m = 0
  <2>1. ScaleUpTo([k \in 0 .. 0 |-> 1], 0)
    BY DEF ScaleUpTo
  <2> QED BY <1>5, <1>6, <2>1
<1>7. CASE m # 0
  <2>1. PICK p \in Nat : m = p + 1
    BY <1>5, <1>7
  <2>2. p \notin S
    BY <1>4, <2>1
  <2>3. PICK product : ScaleUpTo(product, p)
    BY <1>1, <2>2
  <2>4. PICK next : next = [k \in 0 .. m |-> IF k = m THEN product[p] * (RrfK + m) ELSE product[k]]
    OBVIOUS
  <2>5. ASSUME NEW k \in 0 .. m
        PROVE  next[k] = IF k = 0 THEN 1 ELSE next[k - 1] * (RrfK + k)
    <3>1. CASE k = m
      <4>1. k # 0 /\ k - 1 = p /\ p \in 0 .. m /\ p # m
        BY <2>1, <3>1
      <4>2. next[p] = product[p] /\ next[k] = product[p] * (RrfK + m)
        BY <2>4, <3>1, <4>1
      <4> QED BY <3>1, <4>1, <4>2
    <3>2. CASE k # m
      <4>1. k \in 0 .. p /\ (k # 0 => k - 1 \in 0 .. m /\ k - 1 # m)
        BY <2>1, <3>2
      <4>2. next[k] = product[k] /\ (k # 0 => next[k - 1] = product[k - 1])
        BY <2>4, <3>2, <4>1
      <4>3. product[k] = IF k = 0 THEN 1 ELSE product[k - 1] * (RrfK + k)
        BY <2>3, <4>1 DEF ScaleUpTo
      <4> QED BY <4>2, <4>3
    <3> QED BY <3>1, <3>2
  <2>6. ScaleUpTo(next, m)
    <3>1. next = [k \in 0 .. m |-> next[k]]
      BY <2>4
    <3> QED BY <2>5, <3>1 DEF ScaleUpTo
  <2> QED BY <1>5, <2>6
<1> QED BY <1>6, <1>7

LEMMA ScaleIsNumber == Hyb!Scale \in Nat
<1>1. PICK n : n = Depth
  OBVIOUS
<1>2. n \in Nat
  BY <1>1, SearchingAssumption
<1>3. PICK product : product = CHOOSE f : ScaleUpTo(f, n)
  OBVIOUS
<1>4. ScaleUpTo(product, n)
  BY <1>2, <1>3, ScaleExists
<1>5. Hyb!Scale = product[n]
  BY <1>1, <1>3 DEF Hyb!Scale, ScaleUpTo
<1>6. PICK S : S = {m \in 0 .. n : product[m] \notin Nat}
  OBVIOUS
<1>7. SUFFICES ASSUME S # {} PROVE FALSE
  BY <1>2, <1>5, <1>6
<1>8. S \subseteq Nat
  BY <1>2, <1>6
<1>9. PICK m \in S : \A k \in S : m <= k
  BY <1>7, <1>8, LeastNumber
<1>10. m \in 0 .. n /\ product[m] \notin Nat
  BY <1>6
<1>11. m # 0
  BY <1>2, <1>4, <1>10 DEF ScaleUpTo
<1>12. PICK p \in 0 .. n : m = p + 1
  BY <1>2, <1>10, <1>11
<1>13. product[p] \in Nat
  BY <1>2, <1>6, <1>9, <1>12
<1>14. product[m] = product[p] * (RrfK + m)
  <2>1. m - 1 = p /\ m # 0 /\ m \in 0 .. n
    BY <1>2, <1>10, <1>12
  <2> QED BY <1>4, <2>1 DEF ScaleUpTo
<1>15. RrfK + m \in Nat
  BY <1>2, <1>10, SearchingAssumption
<1>16. \A a, b \in Nat : a * b \in Nat
  OBVIOUS
<1> QED BY <1>10, <1>13, <1>14, <1>15, <1>16

(* A share gets smaller, or stays, when the rank is greater.               *)
LEMMA Shares ==
  ASSUME NEW x \in Nat, NEW r \in Nat \ {0}, NEW s \in Nat \ {0}, r <= s
  PROVE  x \div r \in Nat /\ x \div s \in Nat /\ x \div s <= x \div r
<1>1. PICK a, b : a = x \div r /\ b = x \div s
  OBVIOUS
<1>2. a \in Int /\ b \in Int /\ r * a <= x /\ x < r * (a + 1) /\ s * b <= x /\ x < s * (b + 1)
  BY <1>1
<1>3. a >= 0 /\ b >= 0
  BY <1>2
<1>4. b <= a
  BY <1>2, <1>3
<1> QED BY <1>1, <1>2, <1>3, <1>4

LEMMA Weighted ==
  ASSUME NEW w \in Nat, NEW a \in Nat, NEW b \in Nat, a <= b
  PROVE  w * a \in Nat /\ w * a <= w * b
  OBVIOUS

-----------------------------------------------------------------------------
(* A ranking has each of its parents at one rank.                          *)
LEMMA RankingIs ==
  ASSUME NEW s, Hyb!IsRanking(s)
  PROVE  \E n \in Nat :
           /\ Len(s) = n /\ n <= Depth /\ s \in [1 .. n -> Hyb!Parents] /\ DOMAIN s = 1 .. n
           /\ Hyb!ToSet(s) = {s[i] : i \in 1 .. n}
           /\ \A i, j \in 1 .. n : s[i] = s[j] => i = j
           /\ \A p \in Hyb!ToSet(s) : Hyb!RankIn(s, p) \in 1 .. n /\ s[Hyb!RankIn(s, p)] = p
<1>1. PICK n : n = Len(s)
  OBVIOUS
<1>2. n \in Nat /\ s \in [1 .. n -> Hyb!Parents] /\ DOMAIN s = 1 .. n /\ n <= Depth
  BY <1>1 DEF Hyb!IsRanking
<1>3. Hyb!ToSet(s) = {s[i] : i \in 1 .. n}
  BY <1>2 DEF Hyb!ToSet
<1>4. \A i, j \in 1 .. n : s[i] = s[j] => i = j
  BY <1>2 DEF Hyb!IsRanking, Hyb!IsInjective
<1>5. ASSUME NEW p \in Hyb!ToSet(s) PROVE Hyb!RankIn(s, p) \in 1 .. n /\ s[Hyb!RankIn(s, p)] = p
  <2>1. \E r \in 1 .. n : s[r] = p
    BY <1>3
  <2> QED BY <1>2, <2>1 DEF Hyb!RankIn
<1> QED BY <1>1, <1>2, <1>3, <1>4, <1>5

LEMMA RankIs ==
  ASSUME NEW s, Hyb!IsRanking(s), NEW p
  PROVE  Hyb!Rank(s, p) \in 1 .. Depth + 1 /\ (p \in Hyb!ToSet(s) <=> Hyb!Rank(s, p) <= Depth)
<1>1. PICK n \in Nat : n <= Depth /\ (p \in Hyb!ToSet(s) => Hyb!RankIn(s, p) \in 1 .. n)
  BY RankingIs
<1>2. PICK d : d = Depth
  OBVIOUS
<1>3. d \in Nat
  BY <1>2, SearchingAssumption
<1>4. PICK r : r = Hyb!Rank(s, p)
  OBVIOUS
<1>5. CASE p \in Hyb!ToSet(s)
  BY <1>1, <1>2, <1>3, <1>4, <1>5 DEF Hyb!Rank
<1>6. CASE p \notin Hyb!ToSet(s)
  BY <1>1, <1>2, <1>3, <1>4, <1>6 DEF Hyb!Rank
<1> QED BY <1>5, <1>6

(* The part of the score that a channel gives falls with the rank.         *)
LEMMA PartFalls ==
  ASSUME NEW s, Hyb!IsRanking(s), NEW w \in Nat, NEW p, NEW q
  PROVE  /\ Hyb!Part(s, w, p) \in Nat
         /\ Hyb!Rank(s, p) <= Hyb!Rank(s, q) => Hyb!Part(s, w, q) <= Hyb!Part(s, w, p)
<1> DEFINE k(r) == RrfK + Hyb!RankIn(s, r)
<1>1. ASSUME NEW r, r \in Hyb!ToSet(s)
      PROVE  k(r) \in Nat \ {0} /\ Hyb!Scale \div k(r) \in Nat /\ Hyb!Part(s, w, r) = w * (Hyb!Scale \div k(r))
  <2>1. Hyb!RankIn(s, r) \in Nat \ {0}
    BY <1>1, RankingIs
  <2>2. k(r) \in Nat \ {0}
    BY <2>1, SearchingAssumption
  <2>3. Hyb!Scale \div k(r) \in Nat
    BY <2>2, Shares, ScaleIsNumber
  <2> QED BY <1>1, <2>2, <2>3 DEF Hyb!Part
<1>2. ASSUME NEW r PROVE Hyb!Part(s, w, r) \in Nat
  <2>1. CASE r \in Hyb!ToSet(s)
    <3>1. Hyb!Scale \div k(r) \in Nat /\ Hyb!Part(s, w, r) = w * (Hyb!Scale \div k(r))
      BY <1>1, <2>1
    <3> QED BY <3>1, Weighted
  <2>2. CASE r \notin Hyb!ToSet(s)
    BY <2>2 DEF Hyb!Part
  <2> QED BY <2>1, <2>2
<1>3. ASSUME Hyb!Rank(s, p) <= Hyb!Rank(s, q) PROVE Hyb!Part(s, w, q) <= Hyb!Part(s, w, p)
  <2>1. CASE q \notin Hyb!ToSet(s)
    <3>1. Hyb!Part(s, w, q) = 0
      BY <2>1 DEF Hyb!Part
    <3> QED BY <1>2, <3>1
  <2>2. CASE q \in Hyb!ToSet(s)
    <3>1. Depth \in Nat /\ Hyb!Rank(s, p) \in Nat /\ Hyb!Rank(s, q) \in Nat /\ Hyb!Rank(s, q) <= Depth
      BY <2>2, RankIs, SearchingAssumption
    <3>2. p \in Hyb!ToSet(s)
      BY <1>3, <3>1, RankIs
    <3>3. Hyb!RankIn(s, p) = Hyb!Rank(s, p) /\ Hyb!RankIn(s, q) = Hyb!Rank(s, q)
      BY <2>2, <3>2 DEF Hyb!Rank
    <3>4. k(p) <= k(q)
      BY <1>3, <3>1, <3>3, SearchingAssumption
    <3>5. k(p) \in Nat \ {0} /\ k(q) \in Nat \ {0}
      BY <1>1, <2>2, <3>2
    <3>6. PICK a, b : a = Hyb!Scale \div k(q) /\ b = Hyb!Scale \div k(p)
      OBVIOUS
    <3>7. a \in Nat /\ b \in Nat /\ a <= b
      BY <3>4, <3>5, <3>6, Shares, ScaleIsNumber
    <3>8. w * a <= w * b
      BY <3>7, Weighted
    <3>9. Hyb!Part(s, w, q) = w * a /\ Hyb!Part(s, w, p) = w * b
      BY <1>1, <2>2, <3>2, <3>6
    <3> QED BY <3>8, <3>9
  <2> QED BY <2>1, <2>2
<1> QED BY <1>2, <1>3

(* What is found is finite, has a score, and was found at one place.       *)
Rankings == Hyb!IsRanking(semantic) /\ Hyb!IsRanking(keyword)

LEMMA FoundIs ==
  ASSUME Rankings
  PROVE  /\ IsFiniteSet(Hyb!Found) /\ Hyb!Found \subseteq Hyb!Parents
         /\ \A p \in Hyb!Found : Hyb!Score(p) \in Nat /\ Hyb!FoundAt(p) \in Nat
         /\ \A p, q \in Hyb!Found : Hyb!FoundAt(p) = Hyb!FoundAt(q) => p = q
         /\ \A p, q \in Hyb!Found : Hyb!Dominates(p, q) => Hyb!Precedes(p, q)
<1>1. PICK m \in Nat :
           /\ Len(semantic) = m /\ semantic \in [1 .. m -> Hyb!Parents] /\ DOMAIN semantic = 1 .. m
           /\ Hyb!ToSet(semantic) = {semantic[i] : i \in 1 .. m}
           /\ \A p \in Hyb!ToSet(semantic) : Hyb!RankIn(semantic, p) \in 1 .. m /\ semantic[Hyb!RankIn(semantic, p)] = p
  BY RankingIs DEF Rankings
<1>2. PICK n \in Nat :
           /\ Len(keyword) = n /\ keyword \in [1 .. n -> Hyb!Parents] /\ DOMAIN keyword = 1 .. n
           /\ Hyb!ToSet(keyword) = {keyword[i] : i \in 1 .. n}
           /\ \A p \in Hyb!ToSet(keyword) : Hyb!RankIn(keyword, p) \in 1 .. n /\ keyword[Hyb!RankIn(keyword, p)] = p
  BY RankingIs DEF Rankings
<1>3. IsFiniteSet(Hyb!Found)
  <2>1. IsFiniteSet(1 .. m) /\ IsFiniteSet(1 .. n)
    BY FS_Interval
  <2>2. semantic \in Surjection(1 .. m, Hyb!ToSet(semantic)) /\ keyword \in Surjection(1 .. n, Hyb!ToSet(keyword))
    BY <1>1, <1>2 DEF Surjection
  <2>3. IsFiniteSet(Hyb!ToSet(semantic)) /\ IsFiniteSet(Hyb!ToSet(keyword))
    BY <2>1, <2>2, FS_Surjection
  <2> QED BY <2>3, FS_Union DEF Hyb!Found
<1>4. Hyb!Found \subseteq Hyb!Parents
  BY <1>1, <1>2 DEF Hyb!Found
<1>5. ASSUME NEW p \in Hyb!Found PROVE Hyb!Score(p) \in Nat
  <2>1. Hyb!Part(semantic, VectorWeight, p) \in Nat /\ Hyb!Part(keyword, KeywordWeight, p) \in Nat
    BY PartFalls, SearchingAssumption DEF Rankings
  <2> QED BY <2>1 DEF Hyb!Score
<1>6. ASSUME NEW p \in Hyb!Found
      PROVE  \/ p \in Hyb!ToSet(semantic) /\ Hyb!FoundAt(p) \in 1 .. m /\ semantic[Hyb!FoundAt(p)] = p
             \/ /\ p \notin Hyb!ToSet(semantic) /\ p \in Hyb!ToSet(keyword)
                /\ \E r \in 1 .. n : r = Hyb!RankIn(keyword, p) /\ Hyb!FoundAt(p) = m + r /\ keyword[r] = p
  BY <1>1, <1>2 DEF Hyb!Found, Hyb!FoundAt
<1>7. ASSUME NEW p \in Hyb!Found PROVE Hyb!FoundAt(p) \in Nat
  BY <1>6
<1>8. ASSUME NEW p \in Hyb!Found, NEW q \in Hyb!Found, Hyb!FoundAt(p) = Hyb!FoundAt(q) PROVE p = q
  <2>1. CASE p \in Hyb!ToSet(semantic) /\ q \in Hyb!ToSet(semantic)
    BY <1>6, <1>8, <2>1
  <2>2. CASE p \notin Hyb!ToSet(semantic) /\ q \notin Hyb!ToSet(semantic)
    <3>1. PICK r \in 1 .. n : Hyb!FoundAt(p) = m + r /\ keyword[r] = p
      BY <1>6, <2>2
    <3>2. PICK o \in 1 .. n : Hyb!FoundAt(q) = m + o /\ keyword[o] = q
      BY <1>6, <2>2
    <3>3. r = o
      <4>1. m + r = m + o
        BY <1>8, <3>1, <3>2
      <4> QED BY <4>1
    <3> QED BY <3>1, <3>2, <3>3
  <2>3. CASE p \in Hyb!ToSet(semantic) /\ q \notin Hyb!ToSet(semantic)
    <3>1. PICK o \in 1 .. n : Hyb!FoundAt(q) = m + o
      BY <1>6, <2>3
    <3>2. Hyb!FoundAt(p) \in 1 .. m
      BY <1>6, <2>3
    <3> QED BY <1>8, <3>1, <3>2
  <2>4. CASE p \notin Hyb!ToSet(semantic) /\ q \in Hyb!ToSet(semantic)
    <3>1. PICK o \in 1 .. n : Hyb!FoundAt(p) = m + o
      BY <1>6, <2>4
    <3>2. Hyb!FoundAt(q) \in 1 .. m
      BY <1>6, <2>4
    <3> QED BY <1>8, <3>1, <3>2
  <2> QED BY <2>1, <2>2, <2>3, <2>4
<1>9. ASSUME NEW p \in Hyb!Found, NEW q \in Hyb!Found, Hyb!Dominates(p, q) PROVE Hyb!Precedes(p, q)
  <2>1. /\ Hyb!Rank(semantic, p) <= Hyb!Rank(semantic, q) /\ Hyb!Rank(keyword, p) <= Hyb!Rank(keyword, q)
        /\ Hyb!Rank(semantic, p) < Hyb!Rank(semantic, q) \/ Hyb!Rank(keyword, p) < Hyb!Rank(keyword, q)
    BY <1>9 DEF Hyb!Dominates
  <2>2. Hyb!Score(q) <= Hyb!Score(p)
    <3>1. PICK a, b, c, d : /\ a = Hyb!Part(semantic, VectorWeight, p) /\ b = Hyb!Part(keyword, KeywordWeight, p)
                            /\ c = Hyb!Part(semantic, VectorWeight, q) /\ d = Hyb!Part(keyword, KeywordWeight, q)
      OBVIOUS
    <3>2. a \in Nat /\ b \in Nat /\ c \in Nat /\ d \in Nat /\ c <= a /\ d <= b
      BY <2>1, <3>1, PartFalls, SearchingAssumption DEF Rankings
    <3>3. Hyb!Score(p) = a + b /\ Hyb!Score(q) = c + d
      BY <3>1 DEF Hyb!Score
    <3> QED BY <3>2, <3>3
  <2>3. Hyb!FoundAt(p) < Hyb!FoundAt(q)
    <3>1. PICK x, y, u, v, e : /\ x = Hyb!Rank(semantic, p) /\ y = Hyb!Rank(semantic, q)
                               /\ u = Hyb!Rank(keyword, p) /\ v = Hyb!Rank(keyword, q) /\ e = Depth
      OBVIOUS
    <3>2. /\ x \in Nat /\ y \in Nat /\ u \in Nat /\ v \in Nat /\ e \in Nat
          /\ (p \in Hyb!ToSet(semantic) <=> x <= e) /\ (q \in Hyb!ToSet(semantic) <=> y <= e)
          /\ (p \in Hyb!ToSet(keyword) <=> u <= e) /\ (q \in Hyb!ToSet(keyword) <=> v <= e)
      BY <3>1, RankIs, SearchingAssumption DEF Rankings
    <3>3. x <= y /\ u <= v /\ (x < y \/ u < v)
      BY <2>1, <3>1
    <3>4. CASE p \in Hyb!ToSet(semantic) /\ q \in Hyb!ToSet(semantic)
      <4>1. Hyb!FoundAt(p) = x /\ Hyb!FoundAt(q) = y
        BY <3>1, <3>4 DEF Hyb!FoundAt, Hyb!Rank
      <4>2. x # y
        <5>1. x = y => p = q
          BY <1>8, <4>1
        <5>2. p = q => u = v
          BY <3>1
        <5> QED BY <3>2, <3>3, <5>1, <5>2
      <4> QED BY <3>2, <3>3, <4>1, <4>2
    <3>5. CASE p \in Hyb!ToSet(semantic) /\ q \notin Hyb!ToSet(semantic)
      <4>1. PICK o \in 1 .. n : Hyb!FoundAt(q) = m + o
        BY <1>6, <3>5
      <4>2. Hyb!FoundAt(p) \in 1 .. m
        BY <1>6, <3>5
      <4> QED BY <4>1, <4>2
    <3>6. CASE p \notin Hyb!ToSet(semantic)
      <4>1. q \notin Hyb!ToSet(semantic)
        BY <3>2, <3>3, <3>6
      <4>2. Hyb!FoundAt(p) = m + u /\ Hyb!FoundAt(q) = m + v
        BY <1>1, <3>1, <3>6, <4>1 DEF Hyb!FoundAt, Hyb!Rank, Hyb!Found
      <4>3. u # v
        <5>1. u = v => p = q
          BY <1>8, <4>2
        <5>2. p = q => x = y
          BY <3>1
        <5> QED BY <3>2, <3>3, <5>1, <5>2
      <4> QED BY <3>2, <3>3, <4>2, <4>3
    <3> QED BY <3>4, <3>5, <3>6
  <2> QED BY <1>5, <2>2, <2>3 DEF Hyb!Precedes
<1> QED BY <1>3, <1>4, <1>5, <1>7, <1>8, <1>9

(* The fused ranking names what was found, each once, the dominated later. *)
LEMMA FusedIs ==
  ASSUME Rankings
  PROVE  \E m \in Nat :
           /\ Hyb!RrfFuse \in [1 .. m -> Hyb!Found]
           /\ \A i, j \in 1 .. m : Hyb!RrfFuse[i] = Hyb!RrfFuse[j] => i = j
           /\ \A i, j \in 1 .. m : Hyb!Dominates(Hyb!RrfFuse[i], Hyb!RrfFuse[j]) => i < j
<1>1. PICK R : R = {pair \in Hyb!Found \X Hyb!Found : Hyb!Precedes(pair[1], pair[2])}
  OBVIOUS
<1>2. \A p, q \in Hyb!Found : <<p, q>> \in R <=> Hyb!Precedes(p, q)
  BY <1>1
<1>3. Orders(R, Hyb!Found)
  <2>1. \A p \in Hyb!Found : Hyb!Score(p) \in Nat /\ Hyb!FoundAt(p) \in Nat
    BY FoundIs
  <2>2. \A p, q \in Hyb!Found : Hyb!FoundAt(p) = Hyb!FoundAt(q) => p = q
    BY FoundIs
  <2>3. \A p \in Hyb!Found : <<p, p>> \notin R
    BY <1>2, <2>1 DEF Hyb!Precedes
  <2>4. ASSUME NEW p \in Hyb!Found, NEW q \in Hyb!Found, NEW r \in Hyb!Found, <<p, q>> \in R, <<q, r>> \in R
        PROVE  <<p, r>> \in R
    <3>1. Hyb!Precedes(p, q) /\ Hyb!Precedes(q, r)
      BY <1>2, <2>4
    <3>2. Hyb!Precedes(p, r)
      BY <2>1, <3>1 DEF Hyb!Precedes
    <3> QED BY <1>2, <3>2
  <2>5. ASSUME NEW p \in Hyb!Found, NEW q \in Hyb!Found, p # q PROVE <<p, q>> \in R \/ <<q, p>> \in R
    <3>1. Hyb!FoundAt(p) # Hyb!FoundAt(q)
      BY <2>2, <2>5
    <3>2. Hyb!Precedes(p, q) \/ Hyb!Precedes(q, p)
      BY <2>1, <3>1 DEF Hyb!Precedes
    <3> QED BY <1>2, <3>2
  <2> QED BY <2>3, <2>4, <2>5 DEF Orders
<1>4. PICK m : m = Cardinality(Hyb!Found)
  OBVIOUS
<1>5. PICK f : f = Hyb!RrfFuse
  OBVIOUS
<1>6. /\ m \in Nat /\ f \in [1 .. m -> Hyb!Found]
      /\ \A i, j \in 1 .. m : f[i] = f[j] => i = j
      /\ \A i, j \in 1 .. m : <<f[i], f[j]>> \in R <=> i < j
  <2>1. f = Hyb!InOrder(Hyb!Found, R)
    BY <1>1, <1>5 DEF Hyb!RrfFuse
  <2>2. IsFiniteSet(Hyb!Found)
    BY FoundIs
  <2> QED BY <1>3, <1>4, <2>1, <2>2, InOrderIs
<1>7. ASSUME NEW i \in 1 .. m, NEW j \in 1 .. m, Hyb!Dominates(f[i], f[j]) PROVE i < j
  <2>1. f[i] \in Hyb!Found /\ f[j] \in Hyb!Found
    BY <1>6
  <2>2. <<f[i], f[j]>> \in R
    BY <1>2, <1>7, <2>1, FoundIs
  <2> QED BY <1>6, <2>2
<1> QED BY <1>5, <1>6, <1>7

(* The first child of each parent: a ranking no longer than the hits.      *)
LEMMA DedupedIs ==
  ASSUME NEW n \in Nat, n <= Depth, NEW T, NEW hits \in [1 .. n -> Hyb!Parents \X T]
  PROVE  Hyb!IsRanking(Hyb!DedupeByParent(hits))
<1>1. PICK parent : parent = [i \in 1 .. n |-> hits[i][1]]
  OBVIOUS
<1>2. parent \in [1 .. n -> Hyb!Parents]
  BY <1>1
<1>3. PICK P : P = {i \in 1 .. n : \A j \in 1 .. i - 1 : parent[j] # parent[i]}
  OBVIOUS
<1>4. P \subseteq 1 .. n
  BY <1>3
<1>5. PICK k \in 0 .. n : \E pos : HitsPicked(parent, P, k, pos)
  BY <1>4, PickedHits
<1>6. PICK pos : /\ pos \in [1 .. k -> P]
                 /\ \A i, j \in 1 .. k : i < j <=> pos[i] < pos[j]
                 /\ Hyb!Picked(parent, P) = [i \in 1 .. k |-> parent[pos[i]]]
  BY <1>5 DEF HitsPicked
<1>7. PICK t : t = Hyb!DedupeByParent(hits)
  OBVIOUS
<1>8. t = [i \in 1 .. k |-> parent[pos[i]]]
  <2>1. t = Hyb!Picked(parent, P)
    BY <1>1, <1>3, <1>7 DEF Hyb!DedupeByParent
  <2> QED BY <1>6, <2>1
<1>9. \A i \in 1 .. k : pos[i] \in 1 .. n
  BY <1>4, <1>6
<1>10. t \in Seq(Hyb!Parents) /\ Len(t) = k /\ DOMAIN t = 1 .. k
  BY <1>2, <1>8, <1>9
<1>11. ASSUME NEW i \in 1 .. k, NEW j \in 1 .. k, t[i] = t[j] PROVE ~(i < j)
  <2>1. SUFFICES ASSUME i < j PROVE FALSE
    OBVIOUS
  <2>2. pos[i] < pos[j] /\ pos[i] \in 1 .. n /\ pos[j] \in P /\ pos[j] \in 1 .. n
    BY <1>6, <1>9, <2>1
  <2>3. pos[i] \in 1 .. pos[j] - 1
    BY <2>2
  <2>4. parent[pos[i]] # parent[pos[j]]
    BY <1>3, <2>2, <2>3
  <2> QED BY <1>8, <1>11, <2>4
<1>12. ASSUME NEW i \in 1 .. k, NEW j \in 1 .. k, t[i] = t[j] PROVE i = j
  <2>1. ~(i < j) /\ ~(j < i)
    BY <1>11, <1>12
  <2> QED BY <2>1
<1>13. Hyb!IsInjective(t)
  BY <1>10, <1>12 DEF Hyb!IsInjective
<1>14. k <= Depth
  BY SearchingAssumption
<1> QED BY <1>7, <1>10, <1>13, <1>14 DEF Hyb!IsRanking

(* Hits and rankings that a channel returns.                               *)
LEMMA HitsAre ==
  ASSUME NEW S, NEW hits \in Hyb!Rankings(S)
  PROVE  \E n \in Nat : n <= Depth /\ hits \in [1 .. n -> S] /\ \A i, j \in 1 .. n : hits[i] = hits[j] => i = j
<1>1. PICK n \in 0 .. Depth : hits \in {s \in [1 .. n -> S] : Hyb!IsInjective(s)}
  BY DEF Hyb!Rankings
<1> QED BY <1>1, SearchingAssumption DEF Hyb!IsInjective

-----------------------------------------------------------------------------
LEMMA SearchInit == Hyb!Init => Hyb!IInv
<1>1. ASSUME Hyb!Init PROVE Hyb!IInv
  <2>1. active \in [Documents -> 0 .. MaxVersion] /\ vectors \subseteq Hyb!Parents
    BY <1>1, SearchingAssumption DEF Hyb!Init, Hyb!Parents
  <2>2. semantic = <<>> /\ keyword = <<>> /\ results = <<>> /\ search = "vectors"
    BY <1>1 DEF Hyb!Init
  <2>3. Hyb!ToSet(<<>>) = {}
    BY DEF Hyb!ToSet
  <2>4. Hyb!IsRanking(<<>>)
    BY SearchingAssumption DEF Hyb!IsRanking, Hyb!IsInjective
  <2> QED BY <2>1, <2>2, <2>3, <2>4 DEF Hyb!IInv, Hyb!TypeOK, Hyb!OneVersionPerAnswer, Hyb!AnswersInOrder
<1> QED BY <1>1

(* A channel leaves a ranking, and nothing is answered yet.                *)
LEMMA ChannelStep ==
  ASSUME Hyb!IInv, search # "done", UNCHANGED <<active, vectors, results>>,
         Hyb!IsRanking(semantic'), Hyb!IsRanking(keyword'), search' \in {"keywords", "fuse"}
  PROVE  Hyb!IInv'
<1>1. results' = <<>> /\ results = <<>>
  BY DEF Hyb!IInv
<1>2. PICK m \in Nat : semantic' \in [1 .. m -> Hyb!Parents] /\ Hyb!ToSet(semantic') = {semantic'[i] : i \in 1 .. m}
  BY RankingIs
<1>3. PICK n \in Nat : keyword' \in [1 .. n -> Hyb!Parents] /\ Hyb!ToSet(keyword') = {keyword'[i] : i \in 1 .. n}
  BY RankingIs
<1>4. Hyb!ToSet(semantic') \subseteq Hyb!Parents /\ Hyb!ToSet(keyword') \subseteq Hyb!Parents
  BY <1>2, <1>3
<1>5. Hyb!ToSet(results') = {}
  BY <1>1 DEF Hyb!ToSet
<1>6. Hyb!TypeOK'
  BY <1>4, <1>5 DEF Hyb!IInv, Hyb!TypeOK
<1>7. Hyb!OneVersionPerAnswer' /\ Hyb!AnswersInOrder'
  BY <1>1 DEF Hyb!OneVersionPerAnswer, Hyb!AnswersInOrder
<1> QED BY <1>1, <1>6, <1>7 DEF Hyb!IInv

LEMMA SearchVectorsStep == ASSUME Hyb!IInv, Hyb!SearchVectors PROVE Hyb!IInv'
<1>1. search = "vectors" /\ search' = "keywords" /\ UNCHANGED <<active, vectors, keyword, results>>
  BY DEF Hyb!SearchVectors
<1>2. PICK hits \in Hyb!Rankings(vectors \X ChildrenOf) : semantic' = Hyb!DedupeByParent(hits)
  BY DEF Hyb!SearchVectors
<1>3. PICK n \in Nat : n <= Depth /\ hits \in [1 .. n -> vectors \X ChildrenOf]
  BY HitsAre
<1>4. vectors \subseteq Hyb!Parents
  BY DEF Hyb!IInv, Hyb!TypeOK
<1>5. hits \in [1 .. n -> Hyb!Parents \X ChildrenOf]
  BY <1>3, <1>4
<1>6. Hyb!IsRanking(semantic')
  BY <1>2, <1>3, <1>5, DedupedIs
<1>7. Hyb!IsRanking(keyword')
  BY <1>1 DEF Hyb!IInv
<1> QED BY <1>1, <1>6, <1>7, ChannelStep

LEMMA SearchKeywordsStep == ASSUME Hyb!IInv, Hyb!SearchKeywords PROVE Hyb!IInv'
<1>1. search = "keywords" /\ search' = "fuse" /\ UNCHANGED <<active, vectors, semantic, results>>
  BY DEF Hyb!SearchKeywords
<1>2. PICK ranking \in Hyb!Rankings({p \in Hyb!Parents : Hyb!IsActive(p)}) : keyword' = ranking
  BY DEF Hyb!SearchKeywords
<1>3. PICK n \in Nat : /\ n <= Depth /\ ranking \in [1 .. n -> {p \in Hyb!Parents : Hyb!IsActive(p)}]
                       /\ \A i, j \in 1 .. n : ranking[i] = ranking[j] => i = j
  BY HitsAre
<1>4. ranking \in Seq(Hyb!Parents) /\ Len(ranking) = n /\ DOMAIN ranking = 1 .. n
  BY <1>3
<1>5. Hyb!IsRanking(keyword')
  BY <1>2, <1>3, <1>4 DEF Hyb!IsRanking, Hyb!IsInjective
<1>6. Hyb!IsRanking(semantic')
  BY <1>1 DEF Hyb!IInv
<1> QED BY <1>1, <1>5, <1>6, ChannelStep

LEMMA ChannelFailsStep == ASSUME Hyb!IInv, Hyb!ChannelFails PROVE Hyb!IInv'
<1>1. Hyb!IsRanking(<<>>)
  BY SearchingAssumption DEF Hyb!IsRanking, Hyb!IsInjective
<1>2. Hyb!IsRanking(semantic') /\ Hyb!IsRanking(keyword')
  BY <1>1 DEF Hyb!IInv, Hyb!ChannelFails
<1>3. search # "done" /\ UNCHANGED <<active, vectors, results>> /\ search' \in {"keywords", "fuse"}
  BY DEF Hyb!ChannelFails
<1> QED BY <1>2, <1>3, ChannelStep

(* What is shown is active when the texts are read, and in the order of    *)
(* the fused ranking.                                                      *)
LEMMA FuseStep == ASSUME Hyb!IInv, Hyb!Fuse PROVE Hyb!IInv'
<1>1. search = "fuse" /\ search' = "done" /\ UNCHANGED <<active, vectors, semantic, keyword>>
  BY DEF Hyb!Fuse
<1>2. Rankings
  BY DEF Hyb!IInv, Rankings
<1>3. PICK f : f = Hyb!RrfFuse
  OBVIOUS
<1>4. PICK m \in Nat :
           /\ f \in [1 .. m -> Hyb!Found]
           /\ \A i, j \in 1 .. m : f[i] = f[j] => i = j
           /\ \A i, j \in 1 .. m : Hyb!Dominates(f[i], f[j]) => i < j
  BY <1>2, <1>3, FusedIs
<1>5. PICK t : t = IF Len(f) > TopK THEN SubSeq(f, 1, TopK) ELSE f
  OBVIOUS
<1>6. \E l \in Nat : l <= m /\ t = [i \in 1 .. l |-> f[i]]
  <2>1. Len(f) = m /\ f = [i \in 1 .. m |-> f[i]]
    BY <1>4
  <2>2. CASE m > TopK
    <3>1. t = SubSeq(f, 1, TopK)
      BY <1>5, <2>1, <2>2
    <3>2. SubSeq(f, 1, TopK) = [i \in 1 .. TopK |-> f[i]]
      BY <1>4, <2>1, <2>2, SearchingAssumption
    <3> QED BY <2>2, <3>1, <3>2, SearchingAssumption
  <2>3. CASE ~(m > TopK)
    BY <1>5, <2>1, <2>3
  <2> QED BY <2>2, <2>3
<1>7. PICK l \in Nat : l <= m /\ t = [i \in 1 .. l |-> f[i]]
  BY <1>6
<1>8. PICK P : P = {i \in 1 .. l : Hyb!IsActive(t[i])}
  OBVIOUS
<1>9. P \subseteq 1 .. l
  BY <1>8
<1>10. PICK k \in 0 .. l : \E pos : HitsPicked(t, P, k, pos)
  BY <1>9, PickedHits
<1>11. PICK pos : /\ pos \in [1 .. k -> P]
                  /\ \A i, j \in 1 .. k : i < j <=> pos[i] < pos[j]
                  /\ Hyb!Picked(t, P) = [i \in 1 .. k |-> t[pos[i]]]
  BY <1>10 DEF HitsPicked
<1>12. PICK r : r = results'
  OBVIOUS
<1>13. r = [i \in 1 .. k |-> t[pos[i]]]
  <2>1. r = Hyb!GetParentChunksByIds(t)
    BY <1>3, <1>5, <1>12 DEF Hyb!Fuse
  <2>2. DOMAIN t = 1 .. l
    BY <1>7
  <2> QED BY <1>8, <1>11, <2>1, <2>2 DEF Hyb!GetParentChunksByIds
<1>14. ASSUME NEW i \in 1 .. k
       PROVE  pos[i] \in 1 .. m /\ r[i] = f[pos[i]] /\ r[i] \in Hyb!Found /\ Hyb!IsActive(r[i])
  <2>1. pos[i] \in P /\ pos[i] \in 1 .. l
    BY <1>9, <1>11
  <2>2. pos[i] \in 1 .. m /\ t[pos[i]] = f[pos[i]]
    BY <1>7, <2>1
  <2>3. r[i] = t[pos[i]] /\ Hyb!IsActive(t[pos[i]])
    BY <1>8, <1>13, <2>1
  <2> QED BY <1>4, <2>2, <2>3
<1>15. ASSUME NEW i \in 1 .. k, NEW j \in 1 .. k PROVE pos[i] < pos[j] <=> i < j
  BY <1>11
<1>16. ASSUME NEW i \in 1 .. k, NEW j \in 1 .. k, r[i] = r[j] PROVE i = j
  <2>1. pos[i] = pos[j]
    BY <1>4, <1>14, <1>16
  <2>2. ~(i < j) /\ ~(j < i)
    <3>1. pos[i] \in Nat
      BY <1>14
    <3> QED BY <1>15, <2>1, <3>1
  <2> QED BY <2>2
<1>17. DOMAIN r = 1 .. k
  BY <1>13
<1>18. Hyb!OneVersionPerAnswer'
  <2>1. ASSUME NEW i \in 1 .. k, NEW j \in 1 .. k, r[i][1] = r[j][1] PROVE i = j
    <3>1. r[i] \in Hyb!Parents /\ r[j] \in Hyb!Parents
      BY <1>2, <1>14, FoundIs
    <3>2. active[r[i][1]] = r[i][2] /\ active[r[j][1]] = r[j][2]
      BY <1>14 DEF Hyb!IsActive
    <3>3. r[i] = r[j]
      BY <2>1, <3>1, <3>2 DEF Hyb!Parents
    <3> QED BY <1>16, <3>3
  <2> QED BY <1>12, <1>17, <2>1 DEF Hyb!OneVersionPerAnswer
<1>19. Hyb!AnswersInOrder'
  <2>1. ASSUME NEW j \in 1 .. k, NEW p \in Hyb!Found, Hyb!Dominates(p, r[j]), \E i \in 1 .. k : r[i] = p
        PROVE  Hyb!RankIn(r, p) < j
    <3>1. PICK i \in 1 .. k : r[i] = p
      BY <2>1
    <3>2. Hyb!RankIn(r, p) = i
      <4>1. \A o \in 1 .. k : r[o] = p => o = i
        BY <1>16, <3>1
      <4> QED BY <1>17, <3>1, <4>1 DEF Hyb!RankIn
    <3>3. pos[i] \in 1 .. m /\ pos[j] \in 1 .. m /\ r[i] = f[pos[i]] /\ r[j] = f[pos[j]]
      BY <1>14
    <3>4. pos[i] < pos[j]
      BY <1>4, <2>1, <3>1, <3>3
    <3> QED BY <1>15, <3>2, <3>4
  <2>2. Hyb!Found' = Hyb!Found /\ \A p, q : Hyb!Dominates(p, q)' <=> Hyb!Dominates(p, q)
    BY <1>1 DEF Hyb!Found, Hyb!Dominates
  <2> QED BY <1>12, <1>17, <2>1, <2>2 DEF Hyb!AnswersInOrder
<1>20. Hyb!TypeOK'
  <2>1. Hyb!ToSet(r) \subseteq Hyb!Parents
    BY <1>2, <1>14, <1>17, FoundIs DEF Hyb!ToSet
  <2> QED BY <1>1, <1>12, <2>1 DEF Hyb!IInv, Hyb!TypeOK
<1>21. Hyb!IsRanking(semantic') /\ Hyb!IsRanking(keyword')
  BY <1>1 DEF Hyb!IInv
<1> QED BY <1>1, <1>18, <1>19, <1>20, <1>21 DEF Hyb!IInv

(* A version is switched: nothing that was ranked or shown changes.        *)
LEMMA SwitchStep == ASSUME Hyb!IInv, NEW d \in Documents, Hyb!Switch(d) PROVE Hyb!IInv'
<1>1. active[d] < MaxVersion /\ active' = [active EXCEPT ![d] = active[d] + 1]
      /\ UNCHANGED <<semantic, keyword, results, search>>
  BY DEF Hyb!Switch
<1>2. active \in [Documents -> 0 .. MaxVersion] /\ vectors \subseteq Hyb!Parents
  BY DEF Hyb!IInv, Hyb!TypeOK
<1>3. active[d] + 1 \in 1 .. MaxVersion
  BY <1>1, <1>2, SearchingAssumption
<1>4. active' \in [Documents -> 0 .. MaxVersion]
  BY <1>1, <1>2, <1>3
<1>5. vectors' \subseteq Hyb!Parents
  BY <1>2, <1>3 DEF Hyb!Switch, Hyb!Parents
<1>6. Hyb!TypeOK'
  BY <1>1, <1>4, <1>5 DEF Hyb!IInv, Hyb!TypeOK
<1>7. Hyb!AnswersInOrder'
  BY <1>1 DEF Hyb!IInv, Hyb!AnswersInOrder, Hyb!Found, Hyb!Dominates
<1> QED BY <1>1, <1>6, <1>7 DEF Hyb!IInv, Hyb!OneVersionPerAnswer

LEMMA SearchNext == Hyb!IInv /\ [Hyb!Next]_(Hyb!vars) => Hyb!IInv'
<1> SUFFICES ASSUME Hyb!IInv, [Hyb!Next]_(Hyb!vars) PROVE Hyb!IInv'
  OBVIOUS
<1>1. CASE UNCHANGED Hyb!vars
  BY <1>1 DEF Hyb!vars, Hyb!IInv, Hyb!TypeOK, Hyb!OneVersionPerAnswer, Hyb!AnswersInOrder, Hyb!Found, Hyb!Dominates
<1>2. CASE Hyb!Next
  BY <1>2, SearchVectorsStep, SearchKeywordsStep, ChannelFailsStep, FuseStep, SwitchStep DEF Hyb!Next
<1> QED BY <1>1, <1>2
-----------------------------------------------------------------------------
(* The records of the schedule keep to their types, whatever the discovers *)
(* do: a cursor's counts and times are numbers.                            *)
LEMMA PowerIsNumber ==
  ASSUME NEW n \in Nat
  PROVE  2 ^ n \in Nat
<1>1. IsFiniteSet(1 .. n) /\ Cardinality(1 .. n) = n
  BY FS_Interval
<1>2. IsFiniteSet(SUBSET (1 .. n)) /\ Cardinality(SUBSET (1 .. n)) = 2 ^ n
  BY <1>1, FS_SUBSET
<1> QED BY <1>2, FS_CardinalityType

LEMMA BackoffIsNumber ==
  ASSUME NEW n \in Nat
  PROVE  Sch!Backoff(n) \in Nat
<1>1. PICK m \in Nat : m = 2 ^ n
  BY PowerIsNumber
<1>2. Base * m \in Nat /\ Maximum \in Nat
  BY ScheduleAssumption
<1>3. Sch!Backoff(n) = Sch!Least(Maximum, Base * m)
  BY <1>1 DEF Sch!Backoff
<1> QED BY <1>2, <1>3 DEF Sch!Least

LEMMA ScheduleTypeStep ==
  ASSUME Sch!TypeOK, NEW d \in Discovers, NEW j \in Sch!Discover \cup {Sch!Idle}, Sch!Become(d, j),
         now' = now, feed' = feed, saved' \subseteq 1 .. Versions, cursor' \in Sch!Cursor \cup {None}
  PROVE  Sch!TypeOK'
<1>1. discover' \in [Discovers -> Sch!Discover \cup {Sch!Idle}]
  BY DEF Sch!TypeOK, Sch!Become
<1> QED BY <1>1 DEF Sch!TypeOK

LEMMA ScheduleShapes ==
  ASSUME Sch!TypeOK, NEW d \in Discovers
  PROVE  /\ discover[d].at = "save" =>
              /\ discover[d].version \in 1 .. Versions /\ discover[d].todo \subseteq 1 .. Versions
              /\ discover[d].fresh \in BOOLEAN
         /\ discover[d].at = "succeed" =>
              discover[d].version \in 1 .. Versions /\ discover[d].fresh \in BOOLEAN
         /\ discover[d].at = "write" => discover[d].cursor \in Sch!Cursor
         /\ discover[d].at = "fetch" => discover[d].sees \in 1 .. Versions \cup {None}
BY DEF Sch!TypeOK, Sch!Discover, Sch!Idle

LEMMA ScheduleJobs ==
  ASSUME NEW v \in 1 .. Versions, NEW s \in 1 .. Versions \cup {None},
         NEW fresh \in BOOLEAN, NEW todo \in SUBSET (1 .. Versions), NEW c \in Sch!Cursor
  PROVE  /\ [at |-> "fetch", sees |-> s] \in Sch!Discover
         /\ [at |-> "save", version |-> v, todo |-> todo, fresh |-> fresh] \in Sch!Discover
         /\ [at |-> "succeed", version |-> v, fresh |-> fresh] \in Sch!Discover
         /\ [at |-> "fail"] \in Sch!Discover
         /\ [at |-> "write", cursor |-> c] \in Sch!Discover
<1>1. [at |-> "fetch", sees |-> s] \in Sch!Discover
  BY DEF Sch!Discover
<1>2. [at |-> "save", version |-> v, todo |-> todo, fresh |-> fresh] \in Sch!Discover
  BY DEF Sch!Discover
<1>3. [at |-> "succeed", version |-> v, fresh |-> fresh] \in Sch!Discover
  BY DEF Sch!Discover
<1>4. [at |-> "fail"] \in Sch!Discover
  BY DEF Sch!Discover
<1>5. [at |-> "write", cursor |-> c] \in Sch!Discover
  BY DEF Sch!Discover
<1> QED BY <1>1, <1>2, <1>3, <1>4, <1>5

LEMMA ScheduleTypeInit == Sch!Init => Sch!TypeOK
<1>1. 0 \in 0 .. MaxTime /\ 1 \in 1 .. Versions
  BY LimiterAssumption, ScheduleAssumption
<1> QED BY <1>1 DEF Sch!Init, Sch!TypeOK

LEMMA CursorFields ==
  ASSUME Sch!TypeOK, cursor # None
  PROVE  cursor.etag \in 1 .. Versions \cup {None} /\ Sch!Streak("unchanged") = cursor.unchanged
         /\ Sch!Streak("failures") = cursor.failures /\ cursor.unchanged \in Nat /\ cursor.failures \in Nat
BY DEF Sch!TypeOK, Sch!Cursor, Sch!Streak

LEMMA StreakIsNumber ==
  ASSUME Sch!TypeOK
  PROVE  Sch!Streak("unchanged") \in Nat /\ Sch!Streak("failures") \in Nat
<1>1. CASE cursor = None
  BY <1>1 DEF Sch!Streak
<1>2. CASE cursor # None
  BY <1>2, CursorFields
<1> QED BY <1>1, <1>2

LEMMA ScheduleRecords ==
  ASSUME Sch!TypeOK, NEW d \in Discovers, Sch!RecordSuccess(d) \/ Sch!RecordFailure(d)
  PROVE  Sch!TypeOK'
<1>1. PICK a \in Nat, b \in Nat : a = Sch!Streak("unchanged") /\ b = Sch!Streak("failures")
  BY StreakIsNumber
<1>2. now \in Nat /\ UNCHANGED <<now, feed, saved, cursor>>
  BY LimiterAssumption DEF Sch!TypeOK, Sch!RecordSuccess, Sch!RecordFailure
<1>3. PICK e \in 1 .. Versions \cup {None} : e = IF cursor = None THEN None ELSE cursor.etag
  BY CursorFields
<1>4. CASE Sch!RecordSuccess(d)
  <2>1. discover[d].version \in 1 .. Versions
    BY <1>4, ScheduleShapes DEF Sch!RecordSuccess
  <2>2. PICK u \in Nat : u = IF discover[d].fresh THEN 0 ELSE a + 1
    OBVIOUS
  <2>3. PICK i \in Nat : i = IF discover[d].fresh THEN Base ELSE Sch!Backoff(u)
    BY BackoffIsNumber, ScheduleAssumption
  <2>4. PICK etag \in {discover[d].version, e} :
          Sch!Become(d, [at |-> "write", cursor |-> [etag |-> etag, due |-> now + i, unchanged |-> u,
                                                      failures |-> 0, open |-> None]])
    BY <1>1, <1>3, <1>4, <2>2, <2>3 DEF Sch!RecordSuccess
  <2>5. etag \in 1 .. Versions \cup {None} /\ now + i \in Nat
    BY <1>2, <2>1
  <2>6. PICK c \in Sch!Cursor : c = [etag |-> etag, due |-> now + i, unchanged |-> u, failures |-> 0, open |-> None]
    BY <2>5 DEF Sch!Cursor
  <2>7. [at |-> "write", cursor |-> c] \in Sch!Discover
    BY DEF Sch!Discover
  <2> QED BY <1>2, <2>4, <2>6, <2>7, ScheduleTypeStep DEF Sch!TypeOK
<1>5. CASE Sch!RecordFailure(d)
  <2>1. PICK i \in Nat : i = Sch!Backoff(b + 1)
    BY BackoffIsNumber
  <2>2. PICK t \in Nat, f \in Nat : t = now + i /\ f = b + 1
    BY <1>2
  <2>3. PICK o \in Nat \cup {None} : o = IF f >= Threshold THEN t ELSE None
    OBVIOUS
  <2>4. Sch!Become(d, [at |-> "write", cursor |-> [etag |-> e, due |-> t, unchanged |-> a,
                                                    failures |-> f, open |-> o]])
    BY <1>1, <1>3, <1>5, <2>1, <2>2, <2>3 DEF Sch!RecordFailure
  <2>5. PICK c \in Sch!Cursor : c = [etag |-> e, due |-> t, unchanged |-> a, failures |-> f, open |-> o]
    BY DEF Sch!Cursor
  <2>6. [at |-> "write", cursor |-> c] \in Sch!Discover
    BY DEF Sch!Discover
  <2> QED BY <1>2, <2>4, <2>5, <2>6, ScheduleTypeStep DEF Sch!TypeOK
<1> QED BY <1>4, <1>5

LEMMA ScheduleTypeNext == Sch!TypeOK /\ [Sch!Next]_(Sch!vars) => Sch!TypeOK'
<1> SUFFICES ASSUME Sch!TypeOK, [Sch!Next]_(Sch!vars) PROVE Sch!TypeOK'
  OBVIOUS
<1>0. feed \in 1 .. Versions /\ saved \subseteq 1 .. Versions /\ cursor \in Sch!Cursor \cup {None}
  BY DEF Sch!TypeOK
<1>1. CASE UNCHANGED Sch!vars
  BY <1>1 DEF Sch!vars, Sch!TypeOK
<1>2. ASSUME NEW d \in Discovers, Sch!StartRun(d) PROVE Sch!TypeOK'
  <2>1. PICK s \in 1 .. Versions \cup {None} : s = IF cursor = None THEN None ELSE cursor.etag
    BY CursorFields
  <2>2. [at |-> "fetch", sees |-> s] \in Sch!Discover
    BY DEF Sch!Discover
  <2>3. Sch!Become(d, [at |-> "fetch", sees |-> s]) /\ UNCHANGED <<now, feed, saved, cursor>>
    BY <1>2, <2>1 DEF Sch!StartRun
  <2> QED BY <1>0, <2>2, <2>3, ScheduleTypeStep
<1>3. ASSUME NEW d \in Discovers, Sch!FetchFeed(d) PROVE Sch!TypeOK'
  <2>1. /\ [at |-> "succeed", version |-> feed, fresh |-> FALSE] \in Sch!Discover
        /\ [at |-> "save", version |-> feed, todo |-> 1 .. feed, fresh |-> FALSE] \in Sch!Discover
    <3>1. 1 .. feed \subseteq 1 .. Versions
      BY <1>0, ScheduleAssumption
    <3> QED BY <1>0, <3>1 DEF Sch!Discover
  <2>2. PICK j \in Sch!Discover : Sch!Become(d, j) /\ UNCHANGED <<now, feed, saved, cursor>>
    BY <1>3, <2>1 DEF Sch!FetchFeed
  <2> QED BY <1>0, <2>2, ScheduleTypeStep
<1>4. ASSUME NEW d \in Discovers, Sch!SaveCandidate(d) PROVE Sch!TypeOK'
  <2>1. PICK item \in discover[d].todo :
          /\ saved' = saved \cup {item}
          /\ Sch!Become(d, [at |-> "save", version |-> discover[d].version, todo |-> discover[d].todo \ {item},
                            fresh |-> discover[d].fresh \/ item \notin saved])
    BY <1>4 DEF Sch!SaveCandidate
  <2>2. PICK fresh \in BOOLEAN : fresh = (discover[d].fresh \/ item \notin saved)
    OBVIOUS
  <2>3. [at |-> "save", version |-> discover[d].version, todo |-> discover[d].todo \ {item}, fresh |-> fresh]
          \in Sch!Discover /\ item \in 1 .. Versions
    BY <1>4, ScheduleShapes DEF Sch!SaveCandidate, Sch!Discover
  <2>4. UNCHANGED <<now, feed, cursor>>
    BY <1>4 DEF Sch!SaveCandidate
  <2> QED BY <1>0, <2>1, <2>2, <2>3, <2>4, ScheduleTypeStep
<1>5. ASSUME NEW d \in Discovers, Sch!SavedAll(d) PROVE Sch!TypeOK'
  <2>1. [at |-> "succeed", version |-> discover[d].version, fresh |-> discover[d].fresh] \in Sch!Discover
    BY <1>5, ScheduleShapes DEF Sch!SavedAll, Sch!Discover
  <2> QED BY <1>0, <1>5, <2>1, ScheduleTypeStep DEF Sch!SavedAll
<1>6. ASSUME NEW d \in Discovers, Sch!SaveCursor(d) PROVE Sch!TypeOK'
  <2>1. cursor' \in Sch!Cursor /\ Sch!Become(d, Sch!Idle) /\ UNCHANGED <<now, feed, saved>>
    BY <1>6, ScheduleShapes DEF Sch!SaveCursor
  <2> QED BY <1>0, <2>1, ScheduleTypeStep
<1>7. ASSUME NEW d \in Discovers, Sch!DiscoverRaises(d) \/ Sch!Crash(d) PROVE Sch!TypeOK'
  <2>1. [at |-> "fail"] \in Sch!Discover
    BY DEF Sch!Discover
  <2>2. PICK j \in Sch!Discover \cup {Sch!Idle} : Sch!Become(d, j) /\ UNCHANGED <<now, feed, saved, cursor>>
    BY <1>7, <2>1 DEF Sch!DiscoverRaises, Sch!Crash
  <2> QED BY <1>0, <2>2, ScheduleTypeStep
<1>8. CASE Sch!Publish
  <2>1. feed + 1 \in 1 .. Versions
    BY <1>0, <1>8, ScheduleAssumption DEF Sch!Publish
  <2> QED BY <1>8, <2>1 DEF Sch!Publish, Sch!TypeOK
<1>9. CASE Sch!Tick
  <2>1. now + 1 \in 0 .. MaxTime
    BY <1>9, LimiterAssumption DEF Sch!Tick, Sch!TypeOK
  <2> QED BY <1>9, <2>1 DEF Sch!Tick, Sch!TypeOK
<1> QED BY <1>1, <1>2, <1>3, <1>4, <1>5, <1>6, <1>7, <1>8, <1>9, ScheduleRecords DEF Sch!Next

-----------------------------------------------------------------------------
(* The part that moves takes a step of its own, and stays the part.        *)
LEMMA AcquisitionSteps ==
  ASSUME [Next]_vars
  PROVE  /\ part' = part
         /\ part = "uploads" => [Upl!Next]_(Upl!vars)
         /\ part = "schedule" => [Sch!Next]_(Sch!vars)
         /\ part = "limiter" => [Lim!Next]_(Lim!vars)
         /\ part = "retention" => [Ret!Next]_(Ret!vars)
         /\ part = "chunking" => [Chu!Next]_(Chu!vars)
         /\ part = "search" => [Hyb!Next]_(Hyb!vars)
<1>1. CASE UNCHANGED vars
  BY <1>1 DEF vars, uploads, schedule, limiter, retention, chunking, searching, Upl!vars, Sch!vars, Lim!vars,
     Lim!limiter, Ret!vars, Chu!vars, Hyb!vars
<1>2. CASE Next
  BY <1>2 DEF Next
<1> QED BY <1>1, <1>2

AcquisitionIInv ==
  /\ part \in Parts
  /\ part = "uploads" => Upl!IInv
  /\ part = "schedule" => Sch!IInv /\ Sch!TypeOK
  /\ part = "limiter" => Lim!IInv
  /\ part = "retention" => Ret!IInv
  /\ part = "chunking" => ChunkingIInv
  /\ part = "search" => Hyb!IInv

LEMMA AcquisitionIInvHolds == Spec => []AcquisitionIInv
<1>1. Init => AcquisitionIInv
  BY UploadInit, ScheduleInit, ScheduleTypeInit, LimiterInit, RetentionInit, ChunkingInit, SearchInit
     DEF Init, AcquisitionIInv
<1>2. AcquisitionIInv /\ [Next]_vars => AcquisitionIInv'
  <2> SUFFICES ASSUME AcquisitionIInv, [Next]_vars PROVE AcquisitionIInv'
    OBVIOUS
  <2>1. part' = part /\ part \in Parts
    BY AcquisitionSteps DEF AcquisitionIInv
  <2>2. part = "uploads" => Upl!IInv'
    BY AcquisitionSteps, UploadNext DEF AcquisitionIInv
  <2>3. part = "schedule" => Sch!IInv' /\ Sch!TypeOK'
    BY AcquisitionSteps, ScheduleNext, ScheduleTypeNext DEF AcquisitionIInv
  <2>4. part = "limiter" => Lim!IInv'
    BY AcquisitionSteps, LimiterNext DEF AcquisitionIInv
  <2>5. part = "retention" => Ret!IInv'
    BY AcquisitionSteps, RetentionNext DEF AcquisitionIInv
  <2>6. part = "chunking" => ChunkingIInv'
    BY AcquisitionSteps, ChunkingNext DEF AcquisitionIInv
  <2>7. part = "search" => Hyb!IInv'
    BY AcquisitionSteps, SearchNext DEF AcquisitionIInv
  <2> QED BY <2>1, <2>2, <2>3, <2>4, <2>5, <2>6, <2>7 DEF AcquisitionIInv
<1> QED BY <1>1, <1>2, PTL DEF Spec

(* A batch that is succeeded has every blob of it ingested, whatever other *)
(* workers, runs and faults there were (ingest_batch).                     *)
THEOREM SucceededIsIngested == Spec => []SucceededBatchIsIngested
<1>1. AcquisitionIInv => SucceededBatchIsIngested
  BY DEF AcquisitionIInv, SucceededBatchIsIngested, Upl!IInv, Upl!SuccessStands, Upl!SucceededBatchIsIngested
<1> QED BY <1>1, AcquisitionIInvHolds, PTL

(* No worker loses a lock to the release of another one (release_lock).    *)
THEOREM LocksAreKept == Spec => []LocksHold
<1>1. AcquisitionIInv => LocksHold
  BY DEF AcquisitionIInv, LocksHold, Upl!IInv
<1> QED BY <1>1, AcquisitionIInvHolds, PTL

(* The remembered ETag has all its items saved, however many discovers of  *)
(* the source overlap and wherever they end (discover_source_task).        *)
THEOREM NothingIsForgotten == Spec => []RememberedIsSaved
<1>1. AcquisitionIInv => RememberedIsSaved
  BY DEF AcquisitionIInv, RememberedIsSaved, Sch!IInv, Sch!Remembered, Sch!RememberedIsSaved
<1> QED BY <1>1, AcquisitionIInvHolds, PTL

(* No span of time sees more fetches of a strict source than a full bucket *)
(* and what it gains, for any rate, capacity and tasks (consume_token).    *)
THEOREM StrictStaysLimited == Spec => []StrictIsLimited
<1>1. AcquisitionIInv => StrictIsLimited
  <2> SUFFICES ASSUME AcquisitionIInv, part = "limiter", strict PROVE granted <= Lim!Allowance
    BY DEF StrictIsLimited, Lim!StrictIsLimited
  <2>1. Lim!TypeOK /\ granted + Lim!Available <= Lim!Allowance
    BY DEF AcquisitionIInv, Lim!IInv
  <2>2. Lim!Available \in Nat /\ granted \in Nat /\ Lim!Allowance \in Nat
    <3>1. clock - mark \in Nat
      BY <2>1, LimiterNumbers DEF Lim!TypeOK
    <3>2. Rate * (clock - mark) \in Nat /\ Rate * MaxTime \in Nat
      BY <3>1, RateProducts, LimiterNumbers
    <3>3. Lim!Available \in 0 .. Capacity
      BY <2>1, TokensAvailable
    <3> QED BY <2>1, <3>2, <3>3, LimiterNumbers DEF Lim!TypeOK, Lim!Allowance
  <2> QED BY <2>1, <2>2
<1> QED BY <1>1, AcquisitionIInvHolds, PTL

(* A body that a row keeps alive is there, whichever fetches share it and  *)
(* however cleanups interleave with them (list_expired_blob_paths).        *)
THEOREM BodyStaysStored == Spec => []BodyIsKept
<1>1. AcquisitionIInv => BodyIsKept
  BY DEF AcquisitionIInv, BodyIsKept, Ret!IInv
<1> QED BY <1>1, AcquisitionIInvHolds, PTL

(* An answer shows one version of a document, although the vectors, the    *)
(* keywords and the texts are read at different times, for any rankings    *)
(* and any switches in between (search, get_parent_chunks_by_ids).         *)
THEOREM OneVersionIsShown == Spec => []OneVersionPerAnswer
<1>1. AcquisitionIInv => OneVersionPerAnswer
  BY DEF AcquisitionIInv, OneVersionPerAnswer, Hyb!IInv
<1> QED BY <1>1, AcquisitionIInvHolds, PTL

(* What no channel ranks lower, and one ranks higher, is shown first, for  *)
(* any weights and any constant of the fusion (_rrf_fuse).                 *)
THEOREM FusionRespectsRanks == Spec => []AnswersInOrder
<1>1. AcquisitionIInv => AnswersInOrder
  BY DEF AcquisitionIInv, AnswersInOrder, Hyb!IInv
<1> QED BY <1>1, AcquisitionIInvHolds, PTL

(* No text is doubled or moved between a document and its children, and    *)
(* none is lost but for the characters that a forced cut divides: spelled  *)
(* one after the other, the children give, token by token, the text of     *)
(* every block that is not a heading, or of all blocks when there are only *)
(* headings, and a token is spoilt only if it is part of a character, for  *)
(* any file, weights, limits and characters (_chunk_section, _split_       *)
(* oversized_block, _force_split_text, _merge_tiny_chunks).                *)
THEOREM AllTextIsChunked == Spec => []ChunkingKeepsText
<1>1. AcquisitionIInv => ChunkingKeepsText
  BY ChunkingIsRight DEF AcquisitionIInv, ChunkingKeepsText
<1> QED BY <1>1, AcquisitionIInvHolds, PTL

(* A child that is found leads to a parent it stands in: parents cover the *)
(* children in order, share at most one with the next, own at least one of *)
(* theirs, and stay below the target unless they hold one child or the     *)
(* whole document (_build_parent_chunks, _assign_parent_ids).              *)
THEOREM EveryChildHasItsParent == Spec => []ParentsCoverChildren
<1>1. AcquisitionIInv => ParentsCoverChildren
  BY ChunkingIsRight DEF AcquisitionIInv, ParentsCoverChildren
<1> QED BY <1>1, AcquisitionIInvHolds, PTL

(* Normalising an article again changes nothing, and its title is there    *)
(* once, for any lines, those that never close a fence, headings inside    *)
(* code and an H1 that repeats the title among them, and for any title     *)
(* with a name that starts no footer (_normalize_article_markdown, which   *)
(* the converter and the extraction of the blocks both apply).             *)
THEOREM ArticleStaysNormal == Spec => []NormalizingIsStable
<1>1. AcquisitionIInv => NormalizingIsStable
  BY ChunkingIsRight DEF AcquisitionIInv, NormalizingIsStable
<1> QED BY <1>1, AcquisitionIInvHolds, PTL

(* Every part keeps to its types: what a worker, a discover, the limiter,  *)
(* a clean-up, a chunker or a search writes is always one of the records   *)
(* the others read.                                                        *)
THEOREM AcquisitionTypeOK == Spec => []TypeOK
<1>1. AcquisitionIInv => TypeOK
  BY ChunkingIsRight, PartsAssumption
     DEF AcquisitionIInv, TypeOK, Upl!IInv, Lim!IInv, Ret!IInv, Hyb!IInv, ChunkingIInv
<1> QED BY <1>1, AcquisitionIInvHolds, PTL
====================================================================================
