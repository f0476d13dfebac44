------------------------ MODULE PlexLogGatewayProofs ------------------------
(***************************************************************************)
(* Theorems about the PlexLog gateway and the bus it shares                *)
(* (PlexLogGateway.tla, ModbusRtuMaster.tla), for any inverters, values,   *)
(* requests, times, sizes of queue and cache and numbers of faults that    *)
(* the assumptions of the two modules admit.                               *)
(***************************************************************************)
EXTENDS PlexLogGateway, TLAPS

-----------------------------------------------------------------------------
(* Shapes. *)

Request == [request : Requests, age : 0..QueueMaxAge + 1]
Entry == [request : Reads, data : Values, age : 0..MaxAge]

QueueShape ==
    /\ queue \in Seq(Request) /\ Len(queue) <= QueueDepth
    /\ \A i, j \in DOMAIN queue : queue[i].request = queue[j].request => i = j

CacheShape ==
    /\ cache \in [0..CacheEntries - 1 -> Entry \cup {Empty}]
    /\ \A i, j \in 0..CacheEntries - 1 :
          cache[i].request = cache[j].request /\ cache[i] # Empty => i = j
    /\ nextCache \in 0..CacheEntries - 1

InBatch == {"read", "preread", "write", "slot1", "feed", "slot2", "next", "gap"}
           \cup WriteAndVerify

ControlShape ==
    /\ pc \in Waits \cup {"loop", "queued", "batch", "write", "read", "slot1",
                          "slot2", "next"}
    /\ ret \in {"loop", "queued", "feed", "next"}
    /\ pc \in BusWait <=> wire # NoWire
    /\ pc = "forward" <=> forwarding # None
    /\ forwarding \in Requests \cup {None}
    /\ elapsed \in Nat
    /\ pc \in InBatch \/ (pc = "forward" /\ ret \in {"feed", "next"}) =>
           inverter \in Slaves /\ target \in Values
    /\ pc = "poll" => inverter \in Slaves

LogShape ==
    /\ receiving \in Requests \cup {None, Unsupported}
    /\ outstanding \in Requests \cup {None, Unsupported}
    /\ waited \in 0..Patience - 1

HistoryShape == since \in [Watched -> SUBSET Values]

Flags ==
    /\ enabled \in BOOLEAN /\ controlBusy \in BOOLEAN
    /\ unserved \in BOOLEAN /\ confused \in BOOLEAN /\ misled \in BOOLEAN
    /\ plexlogSlotServed \in BOOLEAN

Shape ==
    /\ BusTypeOK /\ QueueShape /\ CacheShape
    /\ ControlShape /\ LogShape /\ HistoryShape

(* What the gateway holds and will still answer is what PlexLog waits for, *)
(* and for no longer than the gateway has had it.                          *)
Due ==
    /\ ~confused
    /\ receiving # None => receiving = outstanding /\ waited = 0
    /\ \A i \in Young : queue[i].request = outstanding /\ waited <= queue[i].age
    /\ receiving # None \/ forwarding # None => Young = {}
    /\ forwarding # None =>
           /\ forwarding = outstanding /\ receiving = None
           /\ elapsed <= ForwardTimeout /\ waited <= QueueMaxAge + elapsed

(* This holds but for a backlog that a held up loop() has left.            *)
Promise == ~confused /\ (unserved \/ Due)

(* Until a late answer is taken for another, what the cache and the answer *)
(* in flight say of a limit is a value it has had since it was published.  *)
Fresh ==
    /\ ~misled
    /\ \A s \in Watched :
          /\ power[s] \in since[s]
          /\ \A i \in 0..CacheEntries - 1 :
                cache[i].request = Limit(s) => cache[i].data \in since[s]
          /\ wire.request = Limit(s) /\ wire.answer.data \in Values =>
                wire.answer.data \in since[s]
    /\ forwarding # None => forwarding = wire.request

Current == crossed \/ Fresh

(* An answer with the target, in flight or late, was given by a register   *)
(* that held it.                                                           *)
Witnessed ==
    /\ pc = "ack" => wire.request = WriteLimit(inverter, target)
    /\ pc = "verify" =>
           wire.request = Limit(inverter) /\ (wire.answer.data = target => held)
    /\ pc \in {"settle", "recheck", "verify"} =>
           (late.request = Limit(inverter) /\ late.data = target => held)

-----------------------------------------------------------------------------
(* Requests, answers and the bus. *)

(* Reads, writes and no request are told apart. *)
LEMMA RequestShape ==
    /\ \A s \in Slaves : Limit(s) \in Reads /\ Block(s) \in Reads
    /\ \A s \in Slaves, v \in Values : WriteLimit(s, v) \in Writes
    /\ \A r \in Reads : r.function = "read" /\ r.slave \in Slaves
    /\ \A r \in Writes : r.function = "write" /\ r.slave \in Slaves
                         /\ r.what \in Values
    /\ None \notin Reads \cup Writes /\ Unsupported \notin Reads \cup Writes
    /\ Unsupported # None
    /\ Requests \subseteq Reads \cup Writes
<1>1. \A s \in Slaves : s # 0
  BY BusAssumption
<1>2. \A s \in Slaves : Limit(s) \in Reads /\ Block(s) \in Reads
  BY DEF Reads
<1>3. \A s \in Slaves, v \in Values : WriteLimit(s, v) \in Writes
  BY DEF Writes
<1>4. \A r \in Reads : r.function = "read" /\ r.slave \in Slaves
  BY DEF Reads, Limit, Block
<1>5. \A r \in Writes : /\ r.function = "write" /\ r.slave \in Slaves
                        /\ r.what \in Values
  BY DEF Writes, WriteLimit
<1>6. None.slave = 0 /\ Unsupported.slave = 0
  BY DEF None, Unsupported
<1>7. None \notin Reads \cup Writes /\ Unsupported \notin Reads \cup Writes
  BY <1>1, <1>4, <1>5, <1>6
<1>8. Unsupported # None
  <2>1. None.function = "none" /\ Unsupported.function = "unsupported"
    BY DEF None, Unsupported
  <2> QED
    BY <2>1
<1>9. Requests \subseteq Reads \cup Writes
  BY GatewayAssumption
<1> QED
  BY <1>2, <1>3, <1>4, <1>5, <1>7, <1>8, <1>9

(* An answer belongs to a read or a write, and is not "no answer". *)
LEMMA AnswerShape ==
    ASSUME NEW a \in Answers
    PROVE  /\ a # NoAnswer /\ a.request \in Reads \cup Writes
           /\ a \in AnswersTo(a.request)
           /\ a.data \in Values => a.request \in Reads
<1>1. PICK r \in Reads \cup Writes : a \in AnswersTo(r)
  BY DEF Answers
<1>2. a.request = r
  BY <1>1 DEF AnswersTo
<1>3. a # NoAnswer
  BY <1>1, <1>2, RequestShape DEF NoAnswer
<1>4. a.data \in Values => r \in Reads
  BY <1>1, BusAssumption DEF AnswersTo
<1> QED
  BY <1>1, <1>2, <1>3, <1>4

LEMMA AnswersIn ==
    ASSUME NEW r \in Reads \cup Writes
    PROVE  AnswersTo(r) \subseteq Answers
  BY DEF Answers

(* transmit() puts one request on the wire and changes a register only by  *)
(* a write.                                                                *)
LEMMA TransmitStep ==
    ASSUME BusTypeOK, NEW r \in Reads \cup Writes, Transmit(r)
    PROVE  /\ BusTypeOK' /\ wire'.request = r /\ wire' # NoWire
           /\ late' = late /\ crossed' = crossed
           /\ r \in Reads => power' = power
           /\ wire'.answer.data \in Values => wire'.answer.data = power'[r.slave]
<1>1. late' = late /\ crossed' = crossed
  BY DEF Transmit
<1>2. r.slave \in Slaves /\ (r \in Writes => r.what \in Values /\ r \notin Reads)
  BY RequestShape
<1>3. power' \in [Slaves -> Values] /\ committing' \in [Slaves -> Values \cup {"none"}]
  BY <1>2 DEF Transmit, Heard, Refused, Unheard, BusTypeOK
<1>4. faults' \in 0..MaxFaults
  BY BusAssumption DEF Transmit, Heard, Refused, Unheard, Fails, BusTypeOK
<1>5. wire' = [request |-> r, answer |-> wire'.answer]
  BY DEF Transmit, Heard, Refused, Unheard
<1>6. /\ wire'.answer \in AnswersTo(r) \cup {NoAnswer}
      /\ wire'.answer.data \in Values => r \in Reads /\ wire'.answer.data = power[r.slave]
  <2>1. CASE Heard(r) /\ r \in Reads
    <3>1. wire'.answer = [request |-> r, data |-> power[r.slave]]
      BY <1>2, <2>1, RequestShape DEF Heard
    <3>2. power[r.slave] \in Values
      BY <1>2 DEF BusTypeOK
    <3> QED
      BY <2>1, <3>1, <3>2 DEF AnswersTo
  <2>2. CASE Heard(r) /\ r \in Writes
    <3>1. wire'.answer = [request |-> r, data |-> "ack"]
      BY <1>2, <2>2 DEF Heard
    <3>2. "ack" \notin Values
      BY BusAssumption
    <3> QED
      BY <1>2, <2>2, <3>1, <3>2 DEF AnswersTo
  <2>3. CASE Refused(r)
    <3>1. wire'.answer = [request |-> r, data |-> "exception"]
      BY <2>3 DEF Refused
    <3>2. "exception" \notin Values
      BY BusAssumption
    <3> QED
      BY <3>1, <3>2 DEF AnswersTo
  <2>4. CASE Unheard(r)
    <3>1. wire'.answer = NoAnswer
      BY <2>4 DEF Unheard
    <3>2. "none" \notin Values
      BY BusAssumption
    <3> QED
      BY <3>1, <3>2 DEF NoAnswer
  <2> QED
    BY <2>1, <2>2, <2>3, <2>4 DEF Transmit
<1>7. r \in Reads => power' = power
  BY <1>2 DEF Transmit, Heard, Refused, Unheard
<1>8. wire' # NoWire /\ wire'.request = r
  BY <1>5, RequestShape DEF NoWire
<1> QED
  BY <1>1, <1>3, <1>4, <1>6, <1>7, <1>8 DEF BusTypeOK

(* What the end of a wait leaves: an answer of the transaction itself, or  *)
(* one that came too late for the transaction before.                      *)
LEMMA ReceiveStep ==
    ASSUME BusTypeOK, NEW a, NEW fits, Receive(a, fits)
    PROVE  /\ BusTypeOK' /\ wire' = NoWire /\ power' = power
           /\ wire # NoWire /\ wire.request \in Reads \cup Writes
           /\ late' \in {NoAnswer, wire.answer}
           /\ a # NoAnswer => a \in Answers
           /\ crossed => crossed'
           /\ a # NoAnswer => \/ a = wire.answer
                              \/ a = late /\ fits /\ crossed'
<1>1. /\ wire # NoWire /\ wire' = NoWire
      /\ power' = power /\ committing' = committing
  BY DEF Receive
<1>2. /\ wire.request \in Reads \cup Writes
      /\ wire.answer \in AnswersTo(wire.request) \cup {NoAnswer}
      /\ wire.answer \in Answers \cup {NoAnswer}
  BY <1>1, AnswersIn DEF BusTypeOK
<1>3. late' \in {NoAnswer, wire.answer}
  BY DEF Receive, OwnAnswer, LostOrDelayed, LateAnswer
<1>4. faults' \in 0..MaxFaults
  BY BusAssumption
     DEF Receive, OwnAnswer, LostOrDelayed, LateAnswer, Fails, BusTypeOK
<1>5. crossed' \in BOOLEAN /\ (crossed => crossed')
  <2>1. CASE crossed' = crossed
    BY <2>1, Zenon DEF BusTypeOK
  <2>2. CASE crossed' = (crossed \/ a # NoAnswer)
    <3>1. CASE crossed \/ a # NoAnswer
      BY <2>2, <3>1, Zenon
    <3>2. CASE ~(crossed \/ a # NoAnswer)
      BY <2>2, <3>2, Zenon
    <3> QED
      BY <3>1, <3>2, Zenon
  <2>3. crossed' = crossed \/ crossed' = (crossed \/ a # NoAnswer)
    BY Zenon DEF Receive, OwnAnswer, LostOrDelayed, LateAnswer
  <2> QED
    BY <2>1, <2>2, <2>3, Zenon
<1>6. a # NoAnswer => \/ a = wire.answer
                      \/ a = late /\ fits /\ crossed'
  BY Zenon DEF Receive, OwnAnswer, LostOrDelayed, LateAnswer
<1>7. a # NoAnswer => a \in Answers
  BY <1>2, <1>6 DEF BusTypeOK
<1> QED
  BY <1>1, <1>2, <1>3, <1>4, <1>5, <1>6, <1>7 DEF BusTypeOK

-----------------------------------------------------------------------------
(* Smallest elements, remainders, cache and queue. *)

LEMMA FirstOfSmall ==
    ASSUME NEW S, S \subseteq 1..8, S # {}
    PROVE  First(S) \in S /\ \A j \in S : First(S) <= j
<1>1. \E i \in S : \A j \in S : i <= j
  <2>1. CASE 1 \in S
    BY <2>1
  <2>2. CASE 1 \notin S /\ 2 \in S
    BY <2>2
  <2>3. CASE S \cap 1..2 = {} /\ 3 \in S
    BY <2>3
  <2>4. CASE S \cap 1..3 = {} /\ 4 \in S
    BY <2>4
  <2>5. CASE S \cap 1..4 = {} /\ 5 \in S
    BY <2>5
  <2>6. CASE S \cap 1..5 = {} /\ 6 \in S
    BY <2>6
  <2>7. CASE S \cap 1..6 = {} /\ 7 \in S
    BY <2>7
  <2>8. CASE S \cap 1..6 = {} /\ 7 \notin S
    <3>1. \A j \in S : j = 8
      <4>1. \A j \in 1..8 : j \in 1..6 \/ j = 7 \/ j = 8
        OBVIOUS
      <4> QED
        BY <2>8, <4>1
    <3>2. 8 \in S
      BY <3>1
    <3> QED
      BY <3>1, <3>2
  <2> QED
    BY <2>1, <2>2, <2>3, <2>4, <2>5, <2>6, <2>7, <2>8
<1> QED
  BY <1>1 DEF First

LEMMA FirstOfOne ==
    ASSUME NEW S, NEW i \in S, i \in Int, \A j \in S : j = i
    PROVE  First(S) = i
<1>1. \A j \in S : i <= j
  OBVIOUS
<1> QED
  BY <1>1 DEF First

LEMMA NextSlot ==
    ASSUME NEW i \in 0..CacheEntries - 1
    PROVE  (i + 1) % CacheEntries \in 0..CacheEntries - 1
  BY GatewayAssumption, SMTT(20)

(* An entry that is there belongs to a read. *)
LEMMA EmptyIsNoEntry == Empty.request = None /\ Empty \notin Entry
  BY RequestShape DEF Empty, Entry

(* Storing keeps at most one entry for each request: the own one, if there *)
(* is one, is overwritten.                                                 *)
LEMMA StoreStep ==
    ASSUME CacheShape, NEW r \in Reads, NEW d \in Values, Store(r, d)
    PROVE  /\ CacheShape'
           /\ \A i \in 0..CacheEntries - 1 :
                 \/ cache'[i] = cache[i] /\ cache[i].request # r
                 \/ cache'[i].request = r /\ cache'[i].data = d
<1> DEFINE own == {i \in DOMAIN cache : cache[i].request = r}
           slot == IF own = {} THEN nextCache ELSE First(own)
           new == [request |-> r, data |-> d, age |-> 0]
<1>1. DOMAIN cache = 0..CacheEntries - 1
  BY DEF CacheShape
<1>2. r # None
  BY RequestShape
<1>3. \A i, j \in own : i = j
  BY <1>1, <1>2, EmptyIsNoEntry DEF CacheShape
<1>4. slot \in 0..CacheEntries - 1 /\ (own # {} => own = {slot})
  <2>1. CASE own = {}
    BY <2>1 DEF CacheShape
  <2>2. ASSUME NEW k \in own PROVE First(own) = k
    <3>1. k \in Int /\ \A j \in own : j = k
      BY <1>1, <1>3
    <3> HIDE DEF own
    <3> QED
      BY <3>1, FirstOfOne
  <2> QED
    BY <1>1, <1>3, <2>1, <2>2
<1>5. cache' = [cache EXCEPT ![slot] = new]
  BY DEF Store
<1>6. nextCache' \in 0..CacheEntries - 1
  <2>1. nextCache' = nextCache \/ nextCache' = (nextCache + 1) % CacheEntries
    BY DEF Store
  <2> QED
    BY <2>1, NextSlot DEF CacheShape
<1>7. new \in Entry
  <2>1. 0 \in 0..MaxAge
    BY GatewayAssumption DEF MaxAge
  <2> QED
    BY <2>1 DEF Entry
<1>8. \A i \in 0..CacheEntries - 1 :
         IF i = slot THEN cache'[i] = new
         ELSE cache'[i] = cache[i] /\ cache[i].request # r
  <2> SUFFICES ASSUME NEW i \in 0..CacheEntries - 1
               PROVE  IF i = slot THEN cache'[i] = new
                      ELSE cache'[i] = cache[i] /\ cache[i].request # r
    OBVIOUS
  <2>1. i # slot => i \notin own
    BY <1>4
  <2> QED
    BY <1>1, <1>4, <1>5, <2>1
<1>9. cache' \in [0..CacheEntries - 1 -> Entry \cup {Empty}]
  BY <1>4, <1>5, <1>7 DEF CacheShape
<1>10. new.request = r /\ new.data = d
  OBVIOUS
<1> HIDE DEF new, slot, own
<1>11. \A i \in 0..CacheEntries - 1 :
          \/ cache'[i] = cache[i] /\ cache[i].request # r
          \/ cache'[i].request = r /\ cache'[i].data = d
  BY <1>8, <1>10
<1>12. \A i, j \in 0..CacheEntries - 1 :
          cache'[i].request = cache'[j].request /\ cache'[i] # Empty => i = j
  <2> SUFFICES ASSUME NEW i \in 0..CacheEntries - 1, NEW j \in 0..CacheEntries - 1,
                      cache'[i].request = cache'[j].request, cache'[i] # Empty
               PROVE  i = j
    OBVIOUS
  <2>1. CASE i = slot \/ j = slot
    BY <1>8, <1>10, <2>1
  <2>2. CASE i # slot /\ j # slot
    BY <1>8, <2>2 DEF CacheShape
  <2> QED
    BY <2>1, <2>2
<1> QED
  BY <1>6, <1>9, <1>11, <1>12 DEF CacheShape

(* What is left of the queue after one of its requests has been taken. *)
LEMMA TailOfQueue ==
    ASSUME QueueShape, NEW k \in DOMAIN queue,
           queue' = SubSeq(queue, k + 1, Len(queue))
    PROVE  /\ QueueShape'
           /\ \A i \in DOMAIN queue' : \E j \in DOMAIN queue :
                 j > k /\ queue'[i] = queue[j]
<1>1. k \in 1..Len(queue) /\ Len(queue) \in Nat
  BY DEF QueueShape
<1>2. /\ queue' \in Seq(Request) /\ Len(queue') = Len(queue) - k
      /\ DOMAIN queue' = 1..Len(queue) - k
      /\ \A i \in 1..Len(queue) - k : queue'[i] = queue[i + k]
  BY <1>1 DEF QueueShape
<1>3. \A i \in DOMAIN queue' : i + k \in DOMAIN queue /\ i + k > k
                               /\ i \in Int /\ queue'[i] = queue[i + k]
  BY <1>1, <1>2 DEF QueueShape
<1>4. Len(queue') <= QueueDepth
  BY <1>1, <1>2, GatewayAssumption DEF QueueShape
<1>5. \A i, j \in DOMAIN queue' : queue'[i].request = queue'[j].request => i = j
  <2> SUFFICES ASSUME NEW i \in DOMAIN queue', NEW j \in DOMAIN queue',
                      queue'[i].request = queue'[j].request
               PROVE  i = j
    OBVIOUS
  <2>1. i + k = j + k
    BY <1>3 DEF QueueShape
  <2> QED
    BY <1>1, <1>3, <2>1
<1> QED
  BY <1>2, <1>3, <1>4, <1>5 DEF QueueShape

(* A request is queued once, at the end. *)
LEMMA EnqueueStep ==
    ASSUME QueueShape, NEW r \in Requests, Enqueue(r)
    PROVE  /\ QueueShape'
           /\ \A i \in DOMAIN queue' :
                 \/ i \in DOMAIN queue /\ queue'[i] = queue[i]
                 \/ queue'[i] = [request |-> r, age |-> 0]
<1> DEFINE new == [request |-> r, age |-> 0]
<1>1. CASE queue' = queue
  BY <1>1 DEF QueueShape
<1>2. CASE /\ \A i \in DOMAIN queue : queue[i].request # r
           /\ Len(queue) < QueueDepth /\ queue' = Append(queue, new)
  <2>1. new \in Request
    BY GatewayAssumption DEF Request
  <2>2. /\ queue' \in Seq(Request) /\ Len(queue') = Len(queue) + 1
        /\ DOMAIN queue' = 1..Len(queue) + 1 /\ DOMAIN queue = 1..Len(queue)
        /\ Len(queue) \in Nat
    BY <1>2, <2>1 DEF QueueShape
  <2>3. \A i \in DOMAIN queue' :
           \/ i \in DOMAIN queue /\ queue'[i] = queue[i]
           \/ i = Len(queue) + 1 /\ queue'[i] = new
    BY <1>2, <2>1, <2>2 DEF QueueShape
  <2>4. Len(queue') <= QueueDepth
    BY <1>2, <2>2, GatewayAssumption
  <2>5. \A i, j \in DOMAIN queue' :
           queue'[i].request = queue'[j].request => i = j
    <3>1. new.request = r
      OBVIOUS
    <3> QED
      BY <1>2, <2>3, <3>1 DEF QueueShape
  <2> QED
    BY <2>2, <2>3, <2>4, <2>5 DEF QueueShape
<1>3. Len(queue) >= QueueDepth \/ Len(queue) < QueueDepth
  BY GatewayAssumption DEF QueueShape
<1> QED
  BY <1>1, <1>2, <1>3 DEF Enqueue

(* Ages grow up to a bound. *)
LEMMA OlderStep ==
    ASSUME NEW bound \in Nat, NEW age \in 0..bound
    PROVE  /\ Older(age, bound) \in 0..bound /\ Older(age, bound) >= age
           /\ Older(age, bound) < bound => age < bound /\ Older(age, bound) = age + 1
  BY DEF Older

(* The first request of the queue that is not too old. *)
LEMMA FirstYoung ==
    ASSUME QueueShape, Young # {}
    PROVE  /\ First(Young) \in Young /\ First(Young) \in DOMAIN queue
           /\ queue[First(Young)] \in Request
           /\ queue[First(Young)].request \in Requests
           /\ \A i \in Young : First(Young) <= i
<1>1. Young \subseteq 1..8
  BY GatewayAssumption DEF Young, QueueShape
<1>2. First(Young) \in Young /\ \A i \in Young : First(Young) <= i
  BY <1>1, FirstOfSmall
<1>3. First(Young) \in DOMAIN queue
  BY <1>2 DEF Young
<1>4. queue[First(Young)] \in Request
  BY <1>3 DEF QueueShape
<1> QED
  BY <1>2, <1>3, <1>4 DEF Request

(* An answer from the cache is one of its entries. *)
LEMMA FirstRecent ==
    ASSUME CacheShape, NEW r \in Requests, Recent(r) # {}
    PROVE  /\ First(Recent(r)) \in 0..CacheEntries - 1
           /\ cache[First(Recent(r))].request = r
           /\ cache[First(Recent(r))] \in Entry
<1>1. PICK k \in Recent(r) : TRUE
  OBVIOUS
<1>2. /\ Recent(r) \subseteq 0..CacheEntries - 1
      /\ \A i \in Recent(r) : cache[i].request = r /\ cache[i] # Empty
  BY RequestShape, EmptyIsNoEntry DEF Recent, CacheShape
<1>3. \A j \in Recent(r) : j = k
  BY <1>2 DEF CacheShape
<1>4. First(Recent(r)) = k
  BY <1>1, <1>2, <1>3, FirstOfOne
<1> QED
  BY <1>1, <1>2, <1>4 DEF CacheShape

-----------------------------------------------------------------------------
(* The shape of the state, step by step. *)

LEMMA TrackStep ==
    ASSUME HistoryShape, power' \in [Slaves -> Values], Track
    PROVE  HistoryShape'
<1>1. \A s \in Watched : since[s] \cup {power'[s]} \in SUBSET Values
  BY DEF HistoryShape, Watched
<1> QED
  BY <1>1 DEF HistoryShape, Track

LEMMA PublishStep ==
    ASSUME BusTypeOK, CacheShape, HistoryShape, NEW s \in Slaves, NEW v \in Values,
           PublishVerifiedHolding(s, v)
    PROVE  CacheShape' /\ HistoryShape'
<1>1. CacheShape'
  BY StoreStep, RequestShape DEF PublishVerifiedHolding
<1>2. \A w \in Watched : (IF w = s THEN {v, power[s]} ELSE since[w]) \in SUBSET Values
  BY DEF HistoryShape, BusTypeOK
<1> QED
  BY <1>1, <1>2 DEF HistoryShape, PublishVerifiedHolding

LEMMA SendStep ==
    ASSUME LogShape, NEW r, NEW d, SendUpstream(r, d)
    PROVE  outstanding' \in Requests \cup {None, Unsupported}
           /\ waited' \in 0..Patience - 1
<1>1. 0 \in 0..Patience - 1
  BY GatewayAssumption
<1> QED
  BY <1>1 DEF LogShape, SendUpstream

LEMMA ForwardStep ==
    ASSUME Shape, NEW r \in Requests, NEW next \in {"loop", "queued", "feed", "next"},
           Forward(r, next),
           next \in {"feed", "next"} => inverter \in Slaves /\ target \in Values,
           UNCHANGED <<inverter, target>>
    PROVE  BusTypeOK' /\ ControlShape' /\ HistoryShape'
<1>1. r \in Reads \cup Writes /\ r # None
  BY RequestShape
<1>2. BusTypeOK' /\ wire' # NoWire
  BY <1>1, TransmitStep DEF Forward, Shape
<1>3. HistoryShape'
  BY <1>2, TrackStep DEF Forward, Shape, BusTypeOK
<1>4. ControlShape'
  BY <1>1, <1>2 DEF Forward, ControlShape, Waits, BusWait, InBatch, WriteAndVerify
<1> QED
  BY <1>2, <1>3, <1>4

(* One of the queue is dropped, rescued or forwarded. *)
LEMMA ServiceStep ==
    ASSUME Shape, NEW next \in {"loop", "feed", "next"}, ServiceOneQueued(next),
           pc \notin BusWait,
           next \in {"feed", "next"} => pc \in InBatch
    PROVE  Shape'
<1>1. next \in {"feed", "next"} => inverter \in Slaves /\ target \in Values
  BY DEF Shape, ControlShape
<1>2. CASE DropAll(next)
  <2>1. /\ UNCHANGED <<power, committing, wire, late, crossed, faults>>
        /\ UNCHANGED <<cache, nextCache, receiving, outstanding, waited, since>>
        /\ UNCHANGED <<forwarding, ret, elapsed, inverter, target>>
        /\ pc' = next /\ queue' = <<>>
    BY <1>2 DEF DropAll, busVars, plexlogVars, historyVars
  <2>2. BusTypeOK' /\ CacheShape' /\ LogShape' /\ HistoryShape'
    BY <2>1 DEF Shape, BusTypeOK, CacheShape, LogShape, HistoryShape
  <2>3. ControlShape'
    BY <1>1, <2>1 DEF Shape, ControlShape, ServiceOneQueued, Waits, BusWait, Pause,
                      InBatch, WriteAndVerify
  <2>4. QueueShape'
    <3>1. <<>> \in Seq(Request) /\ Len(<<>>) = 0 /\ DOMAIN <<>> = {}
      OBVIOUS
    <3> QED
      BY <2>1, <3>1, GatewayAssumption DEF QueueShape
  <2> QED
    BY <2>2, <2>3, <2>4 DEF Shape
<1>3. ASSUME Young # {}, queue' = SubSeq(queue, First(Young) + 1, Len(queue))
      PROVE  QueueShape'
  BY <1>3, FirstYoung, TailOfQueue DEF Shape
<1>4. CASE Rescue(next)
  <2>1. /\ UNCHANGED <<power, committing, wire, late, crossed, faults>>
        /\ UNCHANGED <<cache, nextCache, receiving, since>>
        /\ UNCHANGED <<forwarding, ret, elapsed, inverter, target>>
        /\ pc' = next
    BY <1>4 DEF Rescue, busVars, historyVars
  <2>2. BusTypeOK' /\ CacheShape' /\ HistoryShape'
    BY <2>1 DEF Shape, BusTypeOK, CacheShape, HistoryShape
  <2>3. ControlShape'
    BY <1>1, <2>1 DEF Shape, ControlShape, ServiceOneQueued, Waits, BusWait, Pause,
                      InBatch, WriteAndVerify
  <2>4. LogShape'
    BY <1>4, <2>1, SendStep DEF Rescue, ReplyFromCache, Shape, LogShape
  <2> QED
    BY <1>3, <1>4, <2>2, <2>3, <2>4 DEF Shape, Rescue
<1>5. CASE ForwardQueued(next)
  <2>1. UNCHANGED <<cache, nextCache, receiving, outstanding, waited,
                    inverter, target>>
    BY <1>5 DEF ForwardQueued, plexlogVars, batchVars
  <2>2. CacheShape' /\ LogShape'
    BY <2>1 DEF Shape, CacheShape, LogShape
  <2>3. QueueShape'
    BY <1>3, <1>5 DEF ForwardQueued
  <2>4. BusTypeOK' /\ ControlShape' /\ HistoryShape'
    BY <1>1, <1>5, <2>1, FirstYoung, ForwardStep DEF ForwardQueued, Shape
  <2> QED
    BY <2>2, <2>3, <2>4 DEF Shape
<1> QED
  BY <1>2, <1>4, <1>5 DEF ServiceOneQueued

(* Everything that a step leaves alone keeps its shape. *)
LEMMA BusKept == ASSUME BusTypeOK, UNCHANGED busVars PROVE BusTypeOK'
  BY DEF BusTypeOK, busVars

LEMMA QueueKept == ASSUME QueueShape, UNCHANGED queue PROVE QueueShape'
  BY DEF QueueShape

LEMMA CacheKept == ASSUME CacheShape, UNCHANGED <<cache, nextCache>> PROVE CacheShape'
  BY DEF CacheShape

LEMMA LogKept == ASSUME LogShape, UNCHANGED <<receiving, outstanding, waited>>
                 PROVE  LogShape'
  BY DEF LogShape

LEMMA HistoryKept == ASSUME HistoryShape, UNCHANGED since PROVE HistoryShape'
  BY DEF HistoryShape

LEMMA GatewayShape == Shape /\ Gateway => Shape'
<1> SUFFICES ASSUME Shape, Gateway PROVE Shape'
  OBVIOUS
<1> USE DEF Shape
<1>1. CASE ServiceForwards
  <2>1. QueueShape' /\ CacheShape'
    BY <1>1, QueueKept, CacheKept DEF ServiceForwards
  <2>2. LogShape'
    BY <1>1 DEF ServiceForwards, LogShape, plexlogVars
  <2>3. BusTypeOK' /\ ControlShape' /\ HistoryShape'
    BY <1>1, ForwardStep DEF ServiceForwards, batchVars
  <2> QED
    BY <2>1, <2>2, <2>3
<1>2. CASE ServiceQueue
  <2>1. pc \notin BusWait
    BY <1>2 DEF ServiceQueue, BusWait
  <2> HIDE DEF Shape
  <2> QED
    BY <1>2, <2>1, ServiceStep DEF ServiceQueue
<1>3. CASE ForwardEnds
  <2>1. PICK a \in {wire.answer, late, NoAnswer} :
           /\ Receive(a, Fits(late, wire.request))
           /\ IF a = NoAnswer
              THEN UNCHANGED <<plexlogVars, cache, nextCache>>
              ELSE SendUpstream(forwarding, a.data) /\ Remember(forwarding, a.data)
    BY <1>3 DEF ForwardEnds
  <2>2. BusTypeOK' /\ wire' = NoWire
    BY <2>1, ReceiveStep
  <2>3. QueueShape' /\ HistoryShape'
    BY <1>3, QueueKept, HistoryKept DEF ForwardEnds, historyVars
  <2>4. CacheShape'
    BY <2>1, StoreStep, CacheKept DEF Remember
  <2>5. LogShape'
    <3>1. receiving' = receiving
      BY <1>3 DEF ForwardEnds
    <3> QED
      BY <2>1, <3>1, SendStep DEF LogShape, plexlogVars
  <2>6. ControlShape'
    BY <1>3, <2>2 DEF ForwardEnds, ControlShape, Waits, BusWait, Pause, InBatch, WriteAndVerify
  <2> QED
    BY <2>2, <2>3, <2>4, <2>5, <2>6
<1> QED
  BY <1>1, <1>2, <1>3 DEF Gateway

LEMMA IdleShape == Shape /\ Idle => Shape'
<1> SUFFICES ASSUME Shape, Idle PROVE Shape'
  OBVIOUS
<1> USE DEF Shape
<1>1. /\ UNCHANGED <<busVars, cache, nextCache, historyVars>>
      /\ UNCHANGED <<pc, ret, wire, forwarding, elapsed, inverter, target>>
      /\ receiving' = None
  BY DEF Idle, Reject, IdleReplies, IdleQueues, batchVars, busVars
<1>2. BusTypeOK' /\ CacheShape' /\ HistoryShape'
  BY <1>1, BusKept, CacheKept, HistoryKept DEF historyVars
<1>3. ControlShape'
  BY <1>1 DEF ControlShape
<1>4. QueueShape'
  <2>1. CASE UNCHANGED queue
    BY <2>1, QueueKept
  <2>2. CASE IdleQueues
    BY <2>2, EnqueueStep DEF IdleQueues
  <2> QED
    BY <2>1, <2>2 DEF Idle, Reject, IdleReplies
<1>5. LogShape'
  <2>1. CASE UNCHANGED plexlogVars
    BY <1>1, <2>1 DEF LogShape, plexlogVars
  <2>2. CASE IdleReplies
    BY <1>1, <2>2, SendStep DEF LogShape, IdleReplies, ReplyFromCache
  <2> QED
    BY <2>1, <2>2 DEF Idle, Reject, IdleQueues
<1> QED
  BY <1>2, <1>3, <1>4, <1>5

(* What the steps of a batch leave to the gateway and PlexLog. *)
LEMMA BatchKeeps ==
    ASSUME Shape, BatchStep
    PROVE  /\ QueueShape' /\ LogShape' /\ forwarding' = forwarding /\ ret' = ret
  BY QueueKept, LogKept DEF Shape, BatchStep, plexlogVars

(* A transaction of the control begins. *)
LEMMA TransactShape ==
    ASSUME Shape, NEW r \in Reads \cup Writes, NEW wait \in {"preread", "ack", "verify"},
           Transact(r, wait), Track, pc \in InBatch, pc # "forward"
    PROVE  Shape'
<1> USE DEF Shape
<1>1. BusTypeOK' /\ wire' # NoWire
  BY TransmitStep DEF Transact
<1>2. HistoryShape'
  BY <1>1, TrackStep DEF BusTypeOK
<1>3. CacheShape'
  BY CacheKept DEF Transact
<1>4. QueueShape' /\ LogShape' /\ forwarding' = forwarding /\ ret' = ret
  BY BatchKeeps DEF Transact
<1>5. ControlShape'
  BY <1>1, <1>4 DEF Transact, ControlShape, Waits, BusWait, Pause, InBatch, WriteAndVerify
<1> QED
  BY <1>1, <1>2, <1>3, <1>4, <1>5

(* A wait of the control for the bus ends: what it has seen is published,  *)
(* or not.                                                                 *)
LEMMA ReceiveShape ==
    ASSUME Shape, NEW a, NEW fits, Receive(a, fits), BatchStep,
           pc \in {"preread", "ack", "verify", "poll"},
           \/ UNCHANGED <<cache, nextCache, since>>
           \/ \E v \in Values : PublishVerifiedHolding(inverter, v),
           elapsed' = 0, target' = target, inverter' = inverter \/ pc' = "loop",
           pc' \in {"loop", "slot1", "write", "feed", "settle", "recheck", "backoff"},
           pc = "poll" => pc' = "loop"
    PROVE  Shape'
<1> USE DEF Shape
<1>1. BusTypeOK' /\ wire' = NoWire
  BY ReceiveStep
<1>2. inverter \in Slaves
  BY DEF ControlShape, InBatch, WriteAndVerify
<1>3. CacheShape' /\ HistoryShape'
  BY <1>2, PublishStep, CacheKept, HistoryKept
<1>4. QueueShape' /\ LogShape' /\ forwarding' = forwarding /\ ret' = ret
  BY BatchKeeps
<1>5. ControlShape'
  BY <1>1, <1>4 DEF ControlShape, Waits, BusWait, Pause, InBatch, WriteAndVerify
<1> QED
  BY <1>1, <1>3, <1>4, <1>5

(* A step of a batch that does nothing on the bus. *)
LEMMA QuietShape ==
    ASSUME Shape, BusTypeOK', wire' = wire, BatchStep,
           UNCHANGED <<cache, nextCache, since, elapsed, target>>,
           pc \in InBatch \ BusWait, pc' \in {"slot2", "next", "gap"},
           inverter' \in Slaves
    PROVE  Shape'
<1> USE DEF Shape
<1>1. CacheShape' /\ HistoryShape'
  BY CacheKept, HistoryKept
<1>2. QueueShape' /\ LogShape' /\ forwarding' = forwarding /\ ret' = ret
  BY BatchKeeps
<1>3. ControlShape'
  BY <1>2 DEF ControlShape, Waits, BusWait, Pause, InBatch, WriteAndVerify
<1> QED
  BY <1>1, <1>2, <1>3

LEMMA FirstSlave ==
    ASSUME NEW S \in SUBSET Slaves, S # {}
    PROVE  First(S) \in Slaves
<1>1. S \subseteq 1..8
  BY BusAssumption
<1> QED
  BY <1>1, FirstOfSmall

LEMMA BatchShape == Shape /\ Batch => Shape'
<1> SUFFICES ASSUME Shape, Batch PROVE Shape'
  OBVIOUS
<1> DEFINE owner == inverter \in Slaves /\ target \in Values
<1>0. pc \in InBatch => owner
  BY DEF Shape, ControlShape
<1>1. CASE ReadBack
  <2>1. pc \in InBatch /\ Limit(inverter) \in Reads
    BY <1>0, <1>1, RequestShape DEF ReadBack, InBatch
  <2> QED
    BY <1>1, <2>1, TransactShape DEF ReadBack
<1>2. CASE ReadBackEnds
  <2>1. PICK a : /\ Receive(a, FitsExactly(late, wire.request))
                 /\ \/ Ok(a) /\ PublishVerifiedHolding(inverter, a.data)
                    \/ UNCHANGED <<cache, nextCache, since>>
    BY <1>2 DEF ReadBackEnds, historyVars
  <2>2. pc' \in {"slot1", "write", "feed"}
    BY <1>2 DEF ReadBackEnds
  <2> QED
    BY <1>2, <2>1, <2>2, ReceiveShape DEF ReadBackEnds, Ok
<1>3. CASE Write
  <2>1. pc \in InBatch /\ WriteLimit(inverter, target) \in Writes
    BY <1>0, <1>3, RequestShape DEF Write, InBatch, WriteAndVerify
  <2> QED
    BY <1>3, <2>1, TransactShape DEF Write
<1>4. CASE WriteEnds
  BY <1>4, ReceiveShape DEF WriteEnds, historyVars
<1>5. CASE Verify
  <2>1. pc \in InBatch /\ Limit(inverter) \in Reads
    BY <1>0, <1>5, RequestShape DEF Verify, InBatch, WriteAndVerify
  <2> QED
    BY <1>5, <2>1, TransactShape DEF Verify
<1>6. CASE VerifyEnds
  <2>1. PICK a : /\ Receive(a, FitsExactly(late, wire.request))
                 /\ \/ PublishVerifiedHolding(inverter, target)
                    \/ UNCHANGED <<cache, nextCache, since>>
    BY <1>6 DEF VerifyEnds, historyVars
  <2>2. pc' \in {"slot1", "recheck", "backoff", "feed"} /\ target \in Values
    BY <1>0, <1>6 DEF VerifyEnds, InBatch, WriteAndVerify
  <2> QED
    BY <1>6, <2>1, <2>2, ReceiveShape DEF VerifyEnds
<1>7. CASE Slot1
  BY <1>7, ServiceStep DEF Slot1, InBatch, BusWait
<1>8. CASE FeedEnds
  <2>1. BusTypeOK'
    BY <1>8 DEF FeedEnds, Shape, BusTypeOK
  <2> QED
    BY <1>0, <1>8, <2>1, QuietShape DEF FeedEnds, InBatch, BusWait
<1>9. CASE Slot2
  BY <1>9, ServiceStep DEF Slot2, InBatch, BusWait
<1>10. CASE Slot2Taken
  <2>1. BusTypeOK' /\ wire' = wire
    BY <1>10, BusKept DEF Slot2Taken, Shape, busVars
  <2> QED
    BY <1>0, <1>10, <2>1, QuietShape DEF Slot2Taken, InBatch, BusWait, historyVars
<1>11. CASE NextInverter
  <2>1. BusTypeOK' /\ wire' = wire
    BY <1>11, BusKept DEF NextInverter, Shape, busVars
  <2>2. inverter' \in Slaves
    BY <1>11, FirstSlave DEF NextInverter, Remaining
  <2> QED
    BY <1>0, <1>11, <2>1, <2>2, QuietShape
       DEF NextInverter, InBatch, BusWait, historyVars
<1>12. CASE BatchEnds
  <2> USE DEF Shape
  <2>1. BusTypeOK' /\ wire' = wire
    BY <1>12, BusKept DEF BatchEnds, busVars
  <2>2. QueueShape' /\ CacheShape' /\ LogShape' /\ HistoryShape'
    BY <1>12, QueueKept, CacheKept, LogKept, HistoryKept
       DEF BatchEnds, gatewayVars, plexlogVars, historyVars
  <2>3. ControlShape'
    BY <1>12, <2>1 DEF BatchEnds, gatewayVars, ControlShape, Waits, BusWait, Pause, InBatch, WriteAndVerify
  <2> QED
    BY <2>1, <2>2, <2>3
<1> QED
  BY <1>1, <1>2, <1>3, <1>4, <1>5, <1>6, <1>7, <1>8, <1>9, <1>10, <1>11, <1>12
     DEF Batch

LEMMA PollEndsShape == Shape /\ PollEnds => Shape'
<1> SUFFICES ASSUME Shape, PollEnds PROVE Shape'
  OBVIOUS
<1>1. PICK a : /\ Receive(a, FitsExactly(late, wire.request))
               /\ \/ Ok(a) /\ PublishVerifiedHolding(inverter, a.data)
                  \/ UNCHANGED <<cache, nextCache, since>>
  BY DEF PollEnds
<1> QED
  BY <1>1, ReceiveShape DEF PollEnds, Ok

LEMMA EmptyQueue == ASSUME queue' = <<>> PROVE QueueShape'
<1>1. <<>> \in Seq(Request) /\ Len(<<>>) = 0 /\ DOMAIN <<>> = {}
  OBVIOUS
<1> QED
  BY <1>1, GatewayAssumption DEF QueueShape

(* Time makes entries and queued requests older and changes nothing else of *)
(* them; PlexLog gives a request up in time.                                *)
LEMMA TickStep ==
    ASSUME Shape, Tick
    PROVE  /\ QueueShape' /\ CacheShape' /\ LogShape'
           /\ DOMAIN queue' = DOMAIN queue
           /\ \A i \in DOMAIN queue :
                 /\ queue'[i].request = queue[i].request
                 /\ queue'[i].age <= QueueMaxAge =>
                       /\ queue[i].age <= QueueMaxAge
                       /\ queue'[i].age = queue[i].age + 1
           /\ \A i \in 0..CacheEntries - 1 :
                 cache'[i].request = cache[i].request /\ cache'[i].data = cache[i].data
<1> USE DEF Shape
<1> DEFINE aged(i) == [queue[i] EXCEPT !.age = Older(@, QueueMaxAge + 1)]
           kept(i) == IF cache[i] = Empty THEN Empty
                      ELSE [cache[i] EXCEPT !.age = Older(@, MaxAge)]
<1>1. queue' = [i \in DOMAIN queue |-> aged(i)]
  BY DEF Tick
<1>2. \A i \in DOMAIN queue :
         /\ aged(i) \in Request /\ aged(i).request = queue[i].request
         /\ aged(i).age <= QueueMaxAge =>
               /\ queue[i].age <= QueueMaxAge
               /\ aged(i).age = queue[i].age + 1
  <2> SUFFICES ASSUME NEW i \in DOMAIN queue
               PROVE  /\ aged(i) \in Request /\ aged(i).request = queue[i].request
                      /\ aged(i).age <= QueueMaxAge =>
                            /\ queue[i].age <= QueueMaxAge
                            /\ aged(i).age = queue[i].age + 1
    OBVIOUS
  <2>1. QueueMaxAge + 1 \in Nat /\ QueueMaxAge \in Nat
    BY GatewayAssumption
  <2>2. queue[i] \in Request
    BY DEF QueueShape
  <2>3. queue[i].age \in 0..QueueMaxAge + 1
    BY <2>2 DEF Request
  <2> QED
    BY <2>1, <2>2, <2>3, OlderStep DEF Request
<1> HIDE DEF aged
<1>3. DOMAIN queue' = DOMAIN queue /\ \A i \in DOMAIN queue : queue'[i] = aged(i)
  BY <1>1
<1>4. QueueShape'
  <2>1. Len(queue) \in Nat /\ DOMAIN queue = 1..Len(queue)
    BY DEF QueueShape
  <2>2. queue' \in Seq(Request) /\ Len(queue') = Len(queue)
    BY <1>1, <1>2, <2>1
  <2> QED
    BY <1>2, <1>3, <2>2 DEF QueueShape
<1>5. cache' = [i \in 0..CacheEntries - 1 |-> kept(i)]
  BY DEF Tick, CacheShape
<1>6. \A i \in 0..CacheEntries - 1 :
         /\ kept(i) \in Entry \cup {Empty} /\ (cache[i] = Empty => kept(i) = Empty)
         /\ kept(i).request = cache[i].request /\ kept(i).data = cache[i].data
  <2> SUFFICES ASSUME NEW i \in 0..CacheEntries - 1, cache[i] # Empty
               PROVE  /\ kept(i) \in Entry
                      /\ kept(i).request = cache[i].request /\ kept(i).data = cache[i].data
    BY EmptyIsNoEntry
  <2>1. cache[i] \in Entry /\ cache[i].age \in 0..MaxAge
    BY DEF CacheShape, Entry
  <2>2. Older(cache[i].age, MaxAge) \in 0..MaxAge
    <3>1. MaxAge \in Nat
      BY GatewayAssumption DEF MaxAge
    <3> QED
      BY <2>1, <3>1, OlderStep
  <2> QED
    BY <2>1, <2>2 DEF Entry
<1> HIDE DEF kept
<1>7. CacheShape'
  <2>1. cache' \in [0..CacheEntries - 1 -> Entry \cup {Empty}]
    BY <1>5, <1>6
  <2>2. nextCache' = nextCache
    BY DEF Tick
  <2>3. \A i, j \in 0..CacheEntries - 1 :
           cache'[i].request = cache'[j].request /\ cache'[i] # Empty => i = j
    BY <1>5, <1>6 DEF CacheShape
  <2> QED
    BY <2>1, <2>2, <2>3 DEF CacheShape
<1>8. LogShape'
  BY GatewayAssumption DEF Tick, LogShape
<1> QED
  BY <1>2, <1>3, <1>4, <1>5, <1>6, <1>7, <1>8

LEMMA EnvironmentShape == Shape /\ Environment => Shape'
<1> SUFFICES ASSUME Shape, Environment PROVE Shape'
  OBVIOUS
<1> USE DEF Shape
<1>1. ASSUME NEW r \in Requests \cup {Unsupported}, Send(r) PROVE Shape'
  <2>1. BusTypeOK' /\ QueueShape' /\ CacheShape' /\ HistoryShape'
    BY <1>1, BusKept, QueueKept, CacheKept, HistoryKept DEF Send, historyVars
  <2>2. LogShape'
    BY <1>1, GatewayAssumption DEF Send, LogShape
  <2>3. ControlShape'
    BY <1>1 DEF Send, ControlShape, batchVars, busVars
  <2> QED
    BY <2>1, <2>2, <2>3
<1>2. ASSUME NEW v \in Values, StartBatch(v) PROVE Shape'
  <2>1. BusTypeOK' /\ QueueShape' /\ CacheShape' /\ LogShape' /\ HistoryShape'
    BY <1>2, BusKept, QueueKept, CacheKept, LogKept, HistoryKept
       DEF StartBatch, gatewayVars, plexlogVars, historyVars
  <2>2. inverter' \in Slaves
    BY <1>2, FirstSlave DEF StartBatch
  <2>3. ControlShape'
    BY <1>2, <2>2 DEF StartBatch, gatewayVars, busVars, ControlShape, Waits, BusWait, Pause, InBatch, WriteAndVerify
  <2> QED
    BY <2>1, <2>3
<1>3. ASSUME NEW s \in Slaves, Poll(s) PROVE Shape'
  <2>1. QueueShape' /\ CacheShape' /\ LogShape'
    BY <1>3, QueueKept, CacheKept, LogKept DEF Poll, gatewayVars, plexlogVars
  <2>2. BusTypeOK' /\ wire' # NoWire
    BY <1>3, RequestShape, TransmitStep DEF Poll
  <2>3. HistoryShape'
    BY <1>3, <2>2, TrackStep DEF Poll, BusTypeOK
  <2>4. ControlShape'
    BY <1>3, <2>2 DEF Poll, gatewayVars, ControlShape, Waits, BusWait, Pause, InBatch, WriteAndVerify
  <2> QED
    BY <2>1, <2>2, <2>3, <2>4
<1>4. ASSUME NEW s \in Slaves, TakeOver(s) PROVE Shape'
  <2>1. QueueShape' /\ CacheShape' /\ LogShape'
    BY <1>4, QueueKept, CacheKept, LogKept DEF TakeOver, gatewayVars, plexlogVars
  <2>2. committing[s] \in Values
    BY <1>4 DEF TakeOver, Commit, BusTypeOK
  <2>3. BusTypeOK'
    BY <1>4, <2>2 DEF TakeOver, Commit, BusTypeOK
  <2>4. HistoryShape'
    BY <1>4, <2>3, TrackStep DEF TakeOver, BusTypeOK
  <2>5. ControlShape'
    BY <1>4 DEF TakeOver, gatewayVars, batchVars, ControlShape
  <2> QED
    BY <2>1, <2>3, <2>4, <2>5
<1>5. CASE Switch
  <2>1. BusTypeOK' /\ QueueShape' /\ CacheShape' /\ HistoryShape'
    BY <1>5, BusKept, EmptyQueue, CacheKept, HistoryKept DEF Switch, historyVars
  <2>2. LogShape'
    BY <1>5 DEF Switch, LogShape, plexlogVars
  <2>3. ControlShape'
    BY <1>5 DEF Switch, ControlShape, batchVars, busVars
  <2> QED
    BY <2>1, <2>2, <2>3
<1>6. CASE Tick
  <2>1. QueueShape' /\ CacheShape' /\ LogShape'
    BY <1>6, TickStep
  <2>2. BusTypeOK' /\ HistoryShape'
    BY <1>6, BusKept, HistoryKept DEF Tick, historyVars
  <2>3. ControlShape'
    BY <1>6 DEF Tick, ControlShape, batchVars, busVars
  <2> QED
    BY <2>1, <2>2, <2>3
<1> QED
  BY <1>1, <1>2, <1>3, <1>4, <1>5, <1>6 DEF Environment

LEMMA InitShape == Init => Shape
<1> SUFFICES ASSUME Init PROVE Shape
  OBVIOUS
<1>1. BusTypeOK
  <2>1. power \in [Slaves -> Values] /\ faults \in 0..MaxFaults
    BY BusAssumption DEF Init, BusInit
  <2>2. crossed \in BOOLEAN
    BY DEF Init, BusInit
  <2>3. committing \in [Slaves -> Values \cup {"none"}] /\ late = NoAnswer /\ wire = NoWire
    BY DEF Init, BusInit
  <2> QED
    BY <2>1, <2>2, <2>3 DEF BusTypeOK
<1>2. QueueShape
  <2>1. <<>> \in Seq(Request) /\ Len(<<>>) = 0 /\ DOMAIN <<>> = {}
    OBVIOUS
  <2> QED
    BY <2>1, GatewayAssumption DEF Init, QueueShape
<1>3. CacheShape
  BY GatewayAssumption DEF Init, CacheShape
<1>4. ControlShape
  BY DEF Init, BusInit, ControlShape, Waits, BusWait, Pause, InBatch, WriteAndVerify
<1>5. LogShape
  BY GatewayAssumption DEF Init, LogShape
<1>6. HistoryShape
  BY <1>1 DEF Init, HistoryShape, Watched, BusTypeOK
<1> QED
  BY <1>1, <1>2, <1>3, <1>4, <1>5, <1>6 DEF Shape

LEMMA NextShape == Shape /\ [Next]_vars => Shape'
<1> SUFFICES ASSUME Shape, [Next]_vars PROVE Shape'
  OBVIOUS
<1>1. CASE UNCHANGED vars
  <2>1. /\ UNCHANGED busVars /\ UNCHANGED gatewayVars /\ UNCHANGED batchVars
        /\ UNCHANGED plexlogVars /\ UNCHANGED historyVars
        /\ UNCHANGED <<pc, ret, elapsed>>
    BY <1>1 DEF vars
  <2>2. ControlShape'
    BY <2>1 DEF Shape, ControlShape, busVars, gatewayVars, batchVars
  <2> QED
    BY <2>1, <2>2, BusKept, QueueKept, CacheKept, LogKept, HistoryKept
       DEF Shape, gatewayVars, plexlogVars, historyVars
<1>2. CASE Next
  BY <1>2, GatewayShape, IdleShape, BatchShape, PollEndsShape, EnvironmentShape
     DEF Next, Thread
<1> QED
  BY <1>1, <1>2

-----------------------------------------------------------------------------
(* What is due to PlexLog. *)

(* Nothing young is left of a queue without young requests, nor after its  *)
(* only young one has been taken.                                          *)
LEMMA NoneYoung ==
    ASSUME Shape, Due, Young # {}, queue' = SubSeq(queue, First(Young) + 1, Len(queue))
    PROVE  /\ Young' = {} /\ queue[First(Young)].request = outstanding
           /\ waited <= queue[First(Young)].age /\ queue[First(Young)].age <= QueueMaxAge
           /\ receiving = None /\ forwarding = None
<1>1. /\ First(Young) \in Young /\ First(Young) \in DOMAIN queue
      /\ First(Young) \in Int
  BY FirstYoung DEF Shape, QueueShape
<1>2. \A i \in DOMAIN queue' : \E j \in DOMAIN queue :
         j > First(Young) /\ queue'[i] = queue[j]
  BY <1>1, TailOfQueue DEF Shape
<1>3. Young' = {}
  <2> SUFFICES ASSUME NEW i \in Young' PROVE FALSE
    OBVIOUS
  <2>1. i \in DOMAIN queue' /\ queue'[i].age <= QueueMaxAge
    BY DEF Young
  <2>2. PICK j \in DOMAIN queue : j > First(Young) /\ queue'[i] = queue[j]
    BY <1>2, <2>1
  <2>3. j \in Young
    BY <2>1, <2>2 DEF Young
  <2>4. queue[j].request = queue[First(Young)].request
    BY <1>1, <2>3 DEF Due
  <2>5. j = First(Young)
    BY <1>1, <2>4 DEF Shape, QueueShape
  <2> QED
    BY <1>1, <2>2, <2>5
<1>4. queue[First(Young)].age <= QueueMaxAge
  BY <1>1 DEF Young
<1> QED
  BY <1>1, <1>3, <1>4 DEF Due

LEMMA ServiceDue ==
    ASSUME Shape, Due, NEW next, ServiceOneQueued(next)
    PROVE  Due'
<1>1. CASE DropAll(next)
  <2>1. Young' = {}
    BY <1>1 DEF DropAll, Young
  <2> QED
    BY <1>1, <2>1 DEF DropAll, Due, plexlogVars
<1>2. CASE Rescue(next)
  <2>1. /\ Young' = {} /\ queue[First(Young)].request = outstanding
        /\ receiving = None /\ forwarding = None
    BY <1>2, NoneYoung DEF Rescue
  <2>2. UNCHANGED <<receiving, forwarding, confused>>
    BY <1>2, <2>1 DEF Rescue, ReplyFromCache, SendUpstream
  <2> QED
    BY <2>1, <2>2 DEF Due
<1>3. CASE ForwardQueued(next)
  <2>1. /\ Young' = {} /\ queue[First(Young)].request = outstanding
        /\ waited <= queue[First(Young)].age /\ queue[First(Young)].age <= QueueMaxAge
        /\ receiving = None
    BY <1>3, NoneYoung DEF ForwardQueued
  <2>2. /\ UNCHANGED <<receiving, outstanding, waited, confused>>
        /\ forwarding' = queue[First(Young)].request /\ elapsed' = 0
    BY <1>3 DEF ForwardQueued, Forward, plexlogVars
  <2>3. waited <= QueueMaxAge + 0 /\ 0 <= ForwardTimeout
    <3>1. waited \in Int /\ queue[First(Young)].age \in Int
      BY <1>3, FirstYoung DEF Shape, LogShape, Request, ForwardQueued
    <3> QED
      BY <2>1, <3>1, GatewayAssumption
  <2> QED
    BY <2>1, <2>2, <2>3 DEF Due
<1> QED
  BY <1>1, <1>2, <1>3 DEF ServiceOneQueued

(* A request that is still due is not given up. *)
LEMMA TickDue ==
    ASSUME Shape, Due, Tick, receiving = None
    PROVE  Due'
<1>1. /\ receiving = None /\ receiving' = None /\ forwarding' = forwarding
      /\ confused' = confused
  BY DEF Tick
<1>2. waited \in Nat /\ elapsed \in Nat /\ QueueMaxAge \in Nat /\ ForwardTimeout \in Nat
  BY GatewayAssumption DEF Shape, LogShape, ControlShape
<1>3. \A i \in Young' : /\ i \in Young /\ queue'[i].request = queue[i].request
                        /\ queue'[i].age = queue[i].age + 1
                        /\ queue'[i].age <= QueueMaxAge /\ queue[i].age \in Nat
                        /\ queue[i].request \in Requests
  <2> SUFFICES ASSUME NEW i \in Young'
               PROVE  /\ i \in Young /\ queue'[i].request = queue[i].request
                      /\ queue'[i].age = queue[i].age + 1
                      /\ queue'[i].age <= QueueMaxAge /\ queue[i].age \in Nat
                      /\ queue[i].request \in Requests
    OBVIOUS
  <2>1. i \in DOMAIN queue' /\ queue'[i].age <= QueueMaxAge
    BY DEF Young
  <2>2. /\ i \in DOMAIN queue /\ queue'[i].request = queue[i].request
        /\ queue[i].age <= QueueMaxAge /\ queue'[i].age = queue[i].age + 1
    BY <2>1, TickStep
  <2>3. queue[i] \in Request
    BY <2>2 DEF Shape, QueueShape
  <2> QED
    BY <1>2, <2>1, <2>2, <2>3 DEF Young, Request
<1>4. \A i \in Young' : queue'[i].request = outstanding' /\ waited' <= queue'[i].age
  <2> SUFFICES ASSUME NEW i \in Young'
               PROVE  queue'[i].request = outstanding' /\ waited' <= queue'[i].age
    OBVIOUS
  <2>1. queue[i].request = outstanding /\ waited <= queue[i].age
    BY <1>3 DEF Due
  <2>2. outstanding # None
    BY <1>3, <2>1, RequestShape
  <2>3. waited + 1 < Patience
    BY <1>2, <1>3, <2>1, PatienceAssumption, GatewayAssumption
  <2>4. outstanding' = outstanding /\ waited' = waited + 1
    BY <1>2, <2>2, <2>3, GatewayAssumption DEF Tick
  <2> QED
    BY <1>2, <1>3, <2>1, <2>4
<1>5. ASSUME forwarding # None
      PROVE  /\ Young' = {} /\ forwarding = outstanding'
             /\ elapsed' <= ForwardTimeout /\ waited' <= QueueMaxAge + elapsed'
  <2>1. forwarding = outstanding /\ Young = {} /\ waited <= QueueMaxAge + elapsed
    BY <1>5 DEF Due
  <2>2. pc \in BusWait
    BY <1>5 DEF Shape, ControlShape, BusWait
  <2>3. elapsed < ForwardTimeout /\ elapsed' = elapsed + 1
    BY <1>5, <2>2 DEF Tick, Timeout
  <2>4. waited + 1 < Patience
    BY <1>2, <2>1, <2>3, PatienceAssumption, GatewayAssumption
  <2>5. outstanding' = outstanding /\ waited' = waited + 1
    BY <1>2, <1>5, <2>1, <2>4, GatewayAssumption DEF Tick
  <2>6. Young' = {}
    BY <1>3, <2>1
  <2> QED
    BY <1>2, <2>1, <2>3, <2>5, <2>6
<1> QED
  BY <1>1, <1>4, <1>5 DEF Due

LEMMA DueKept ==
    ASSUME Shape, Due, UNCHANGED <<queue, receiving, forwarding, outstanding, waited, confused>>,
           elapsed' = elapsed \/ forwarding = None
    PROVE  Due'
<1>1. Young' = Young
  BY DEF Young
<1> QED
  BY <1>1 DEF Due

(* Nothing is due when PlexLog does not wait. *)
LEMMA NothingDue ==
    ASSUME Shape, Due, outstanding = None
    PROVE  Young = {} /\ forwarding = None
<1>1. \A i \in Young : queue[i].request \in Requests
  <2>1. \A i \in Young : queue[i] \in Request
    BY DEF Shape, QueueShape, Young
  <2> QED
    BY <2>1 DEF Request
<1> QED
  BY <1>1, RequestShape DEF Due

LEMMA NextDue ==
    Shape /\ Due /\ [Next]_vars /\ (Tick => receiving = None) => Due'
<1> SUFFICES ASSUME Shape, Due, [Next]_vars, Tick => receiving = None PROVE Due'
  OBVIOUS
<1>1. ASSUME UNCHANGED <<gatewayVars, plexlogVars>>, elapsed' = elapsed \/ pc # "forward"
      PROVE  Due'
  BY <1>1, DueKept DEF gatewayVars, plexlogVars, Shape, ControlShape
<1>2. ASSUME BatchStep, elapsed' = elapsed \/ pc # "forward" PROVE Due'
  BY <1>2, DueKept DEF BatchStep, plexlogVars, Shape, ControlShape
<1>3. CASE UNCHANGED vars
  BY <1>1, <1>3 DEF vars
<1>4. CASE ServiceForwards
  <2>1. receiving # None
    BY <1>4, RequestShape DEF ServiceForwards
  <2>2. Young' = {}
    BY <1>4, <2>1 DEF ServiceForwards, Young, Due
  <2> QED
    BY <1>4, <2>1, <2>2, GatewayAssumption DEF ServiceForwards, Forward, Due, plexlogVars
<1>5. CASE ForwardEnds
  <2>1. forwarding # None /\ forwarding' = None /\ UNCHANGED <<queue, receiving>>
    BY <1>5 DEF ForwardEnds, Shape, ControlShape
  <2>2. Young' = {} /\ receiving = None
    BY <2>1 DEF Young, Due
  <2>3. confused' = confused
    BY <1>5, <2>1 DEF ForwardEnds, SendUpstream, Due, plexlogVars
  <2> QED
    BY <2>1, <2>2, <2>3 DEF Due
<1>6. CASE Reject
  <2>1. Young' = Young
    BY <1>6 DEF Reject, Young
  <2> QED
    BY <1>6, <2>1 DEF Reject, Due, plexlogVars, batchVars
<1>7. CASE IdleReplies
  <2>1. receiving # None /\ receiving' = None /\ UNCHANGED <<queue, forwarding>>
    BY <1>7, RequestShape DEF IdleReplies
  <2>2. Young' = {} /\ forwarding = None /\ receiving = outstanding
    BY <2>1 DEF Young, Due
  <2>3. confused' = confused
    BY <1>7, <2>2 DEF IdleReplies, ReplyFromCache, SendUpstream
  <2> QED
    BY <2>1, <2>2, <2>3 DEF Due
<1>8. CASE IdleQueues
  <2>1. receiving # None /\ receiving' = None
        /\ UNCHANGED <<forwarding, outstanding, waited, confused>>
    BY <1>8, RequestShape DEF IdleQueues, plexlogVars
  <2>2. Young = {} /\ forwarding = None /\ receiving = outstanding /\ waited = 0
    BY <2>1 DEF Due
  <2>3. \A i \in Young' : queue'[i] = [request |-> receiving, age |-> 0]
    BY <1>8, <2>2, EnqueueStep DEF IdleQueues, Young, Shape
  <2> QED
    BY <2>1, <2>2, <2>3 DEF Due
<1>9. ASSUME NEW r \in Requests \cup {Unsupported}, Send(r) PROVE Due'
  <2>1. Young = {} /\ forwarding = None /\ receiving = None
    BY <1>9, NothingDue DEF Send, Due
  <2>2. Young' = {}
    BY <1>9, <2>1 DEF Send, Young
  <2> QED
    BY <1>9, <2>1, <2>2 DEF Send, Due
<1>10. CASE Switch
  <2>1. Young' = {}
    BY <1>10 DEF Switch, Young
  <2> QED
    BY <1>10, <2>1 DEF Switch, Due, Shape, ControlShape, plexlogVars
<1>11. CASE ServiceQueue \/ Slot1 \/ Slot2
  BY <1>11, ServiceDue DEF ServiceQueue, Slot1, Slot2
<1>12. CASE ReadBack \/ ReadBackEnds \/ Write \/ WriteEnds \/ Verify \/ VerifyEnds
  BY <1>2, <1>12 DEF ReadBack, ReadBackEnds, Write, WriteEnds, Verify, VerifyEnds, Transact
<1>13. CASE FeedEnds \/ Slot2Taken \/ NextInverter \/ PollEnds
  BY <1>2, <1>13 DEF FeedEnds, Slot2Taken, NextInverter, PollEnds
<1>14. CASE BatchEnds \/ \E v \in Values : StartBatch(v)
  BY <1>1, <1>14 DEF BatchEnds, StartBatch
<1>15. CASE \E s \in Slaves : Poll(s) \/ TakeOver(s)
  BY <1>1, <1>15 DEF Poll, TakeOver
<1>16. CASE Tick
  BY <1>16, TickDue
<1> QED
  BY <1>3, <1>4, <1>5, <1>6, <1>7, <1>8, <1>9, <1>10, <1>11, <1>12, <1>13, <1>14,
     <1>15, <1>16
     DEF Next, Thread, Gateway, Idle, Batch, Environment

(* A backlog is remembered until the gateway has worked it off. *)
LEMMA BacklogStep ==
    ASSUME Shape, Promise, unserved, [Next]_vars
    PROVE  ~confused' /\ (unserved' \/ Due')
<1>0. ~confused
  BY DEF Promise
<1>1. ASSUME NEW r \in Requests \cup {Unsupported}, Send(r)
      PROVE  ~confused' /\ (unserved' \/ Due')
  <2>1. ~confused'
    BY <1>0, <1>1 DEF Send
  <2>2. CASE Backlog
    BY <1>1, <2>1, <2>2, Zenon DEF Send
  <2>3. CASE ~Backlog
    <3>1. /\ receiving = None /\ forwarding = None /\ Young = {}
          /\ queue' = queue /\ forwarding' = forwarding
          /\ outstanding' = r /\ waited' = 0 /\ receiving' \in {r, None}
      BY <1>1, <2>3 DEF Send, Backlog
    <3>2. Young' = {}
      BY <3>1 DEF Young
    <3> QED
      BY <2>1, <3>1, <3>2 DEF Due
  <2> QED
    BY <2>2, <2>3
<1>2. ASSUME UNCHANGED plexlogVars PROVE ~confused' /\ unserved'
  BY <1>0, <1>2 DEF plexlogVars
<1>3. ASSUME NEW r, NEW d, SendUpstream(r, d) PROVE ~confused' /\ unserved'
  BY <1>0, <1>3, Zenon DEF SendUpstream
<1>4. ASSUME NEW r, ReplyFromCache(r) PROVE ~confused' /\ unserved'
  BY <1>3, <1>4 DEF ReplyFromCache
<1>5. ASSUME NEW next, ServiceOneQueued(next) PROVE ~confused' /\ unserved'
  BY <1>2, <1>4, <1>5 DEF ServiceOneQueued, DropAll, Rescue, ForwardQueued
<1>6. CASE Tick
  BY <1>0, <1>6, Zenon DEF Tick
<1>7. CASE Gateway
  BY <1>2, <1>3, <1>5, <1>7 DEF Gateway, ServiceForwards, ServiceQueue, ForwardEnds
<1>8. CASE Idle
  BY <1>2, <1>4, <1>8 DEF Idle, Reject, IdleReplies, IdleQueues
<1>9. CASE Batch \/ PollEnds
  BY <1>2, <1>5, <1>9
     DEF Batch, ReadBack, ReadBackEnds, Write, WriteEnds, Verify, VerifyEnds, Slot1,
         FeedEnds, Slot2, Slot2Taken, NextInverter, BatchEnds, PollEnds, Transact, BatchStep
<1>10. CASE Environment
  BY <1>1, <1>2, <1>6, <1>10 DEF Environment, StartBatch, Poll, TakeOver, Switch
<1>11. CASE UNCHANGED vars
  BY <1>2, <1>11 DEF vars
<1> QED
  BY <1>7, <1>8, <1>9, <1>10, <1>11 DEF Next, Thread

LEMMA NextPromise == Shape /\ Promise /\ [Next]_vars => Promise'
<1> SUFFICES ASSUME Shape, Promise, [Next]_vars PROVE Promise'
  OBVIOUS
<1>1. CASE unserved
  BY <1>1, BacklogStep DEF Promise
<1>2. CASE ~unserved /\ Tick /\ receiving # None
  BY <1>2, Zenon DEF Promise, Tick
<1>3. CASE ~unserved /\ (Tick => receiving = None)
  <2>1. Due'
    BY <1>3, NextDue DEF Promise
  <2> QED
    BY <2>1 DEF Promise, Due
<1> QED
  BY <1>1, <1>2, <1>3

-----------------------------------------------------------------------------
(* Flags, and the first theorems. *)

LEMMA NextFlags == Flags /\ [Next]_vars => Flags'
<1> SUFFICES ASSUME Flags, [Next]_vars PROVE Flags'
  OBVIOUS
<1>1. enabled' \in BOOLEAN
  BY Zenon DEF Flags, vars, batchVars, plexlogVars, Next, Thread, Gateway, Idle, Batch, Environment,
     ServiceForwards, ServiceQueue, ForwardEnds, Reject, IdleReplies, IdleQueues,
     ReadBack, ReadBackEnds, Write, WriteEnds, Verify, VerifyEnds, Slot1, FeedEnds,
     Slot2, Slot2Taken, NextInverter, BatchEnds, PollEnds, Send, StartBatch, Poll,
     TakeOver, Switch, Tick, ServiceOneQueued, DropAll, Rescue, ForwardQueued,
     Transact, BatchStep
<1>2. controlBusy' \in BOOLEAN
  BY Zenon DEF Flags, vars, batchVars, plexlogVars, Next, Thread, Gateway, Idle, Batch, Environment,
     ServiceForwards, ServiceQueue, ForwardEnds, Reject, IdleReplies, IdleQueues,
     ReadBack, ReadBackEnds, Write, WriteEnds, Verify, VerifyEnds, Slot1, FeedEnds,
     Slot2, Slot2Taken, NextInverter, BatchEnds, PollEnds, Send, StartBatch, Poll,
     TakeOver, Switch, Tick, ServiceOneQueued, DropAll, Rescue, ForwardQueued,
     Transact, BatchStep
<1>3. confused' \in BOOLEAN
  BY Zenon DEF Flags, vars, batchVars, plexlogVars, Next, Thread, Gateway, Idle, Batch, Environment,
     ServiceForwards, ServiceQueue, ForwardEnds, Reject, IdleReplies, IdleQueues,
     ReadBack, ReadBackEnds, Write, WriteEnds, Verify, VerifyEnds, Slot1, FeedEnds,
     Slot2, Slot2Taken, NextInverter, BatchEnds, PollEnds, Send, StartBatch, Poll,
     TakeOver, Switch, Tick, ServiceOneQueued, DropAll, Rescue, ForwardQueued,
     Transact, BatchStep, SendUpstream, ReplyFromCache
<1>4. misled' \in BOOLEAN
  BY Zenon DEF Flags, vars, batchVars, plexlogVars, Next, Thread, Gateway, Idle, Batch, Environment,
     ServiceForwards, ServiceQueue, ForwardEnds, Reject, IdleReplies, IdleQueues,
     ReadBack, ReadBackEnds, Write, WriteEnds, Verify, VerifyEnds, Slot1, FeedEnds,
     Slot2, Slot2Taken, NextInverter, BatchEnds, PollEnds, Send, StartBatch, Poll,
     TakeOver, Switch, Tick, ServiceOneQueued, DropAll, Rescue, ForwardQueued,
     Transact, BatchStep, SendUpstream, ReplyFromCache
<1>6. unserved' \in BOOLEAN
  BY Zenon DEF Flags, vars, batchVars, plexlogVars, Next, Thread, Gateway, Idle, Batch, Environment,
     ServiceForwards, ServiceQueue, ForwardEnds, Reject, IdleReplies, IdleQueues,
     ReadBack, ReadBackEnds, Write, WriteEnds, Verify, VerifyEnds, Slot1, FeedEnds,
     Slot2, Slot2Taken, NextInverter, BatchEnds, PollEnds, Send, StartBatch, Poll,
     TakeOver, Switch, Tick, ServiceOneQueued, DropAll, Rescue, ForwardQueued,
     Transact, BatchStep, SendUpstream, ReplyFromCache
<1>5. plexlogSlotServed' \in BOOLEAN
  BY Zenon DEF Flags, vars, batchVars, plexlogVars, Next, Thread, Gateway, Idle, Batch, Environment,
     ServiceForwards, ServiceQueue, ForwardEnds, Reject, IdleReplies, IdleQueues,
     ReadBack, ReadBackEnds, Write, WriteEnds, Verify, VerifyEnds, Slot1, FeedEnds,
     Slot2, Slot2Taken, NextInverter, BatchEnds, PollEnds, Send, StartBatch, Poll,
     TakeOver, Switch, Tick, ServiceOneQueued, DropAll, Rescue, ForwardQueued,
     Transact, BatchStep
<1> QED
  BY <1>1, <1>2, <1>3, <1>4, <1>5, <1>6, Zenon DEF Flags

LEMMA ShapeGivesTypeOK == Shape /\ Flags => TypeOK
<1> SUFFICES ASSUME Shape, Flags PROVE TypeOK
  OBVIOUS
<1>1. /\ Len(queue) <= QueueDepth
      /\ \A i \in DOMAIN queue : /\ queue[i].request \in Requests
                                 /\ queue[i].age \in 0..QueueMaxAge + 1
      /\ \A i, j \in DOMAIN queue : queue[i].request = queue[j].request => i = j
  <2>1. \A i \in DOMAIN queue : queue[i] \in Request
    BY DEF Shape, QueueShape
  <2> QED
    BY <2>1 DEF Shape, QueueShape, Request
<1>2. /\ DOMAIN cache = 0..CacheEntries - 1 /\ nextCache \in 0..CacheEntries - 1
      /\ \A i \in DOMAIN cache :
            \/ cache[i] = Empty
            \/ cache[i].request \in Reads /\ cache[i].data \in Values
               /\ cache[i].age \in 0..MaxAge
      /\ \A i, j \in DOMAIN cache :
            cache[i].request = cache[j].request /\ cache[i] # Empty => i = j
  BY DEF Shape, CacheShape, Entry
<1>3. /\ pc \in Waits \cup {"loop", "queued", "batch", "write", "read", "slot1",
                            "slot2", "next"}
      /\ ret \in {"loop", "queued", "feed", "next"}
      /\ receiving \in Requests \cup {None, Unsupported}
      /\ outstanding \in Requests \cup {None, Unsupported}
      /\ waited \in 0..Patience - 1
  BY DEF Shape, ControlShape, LogShape
<1>4. (pc \in BusWait) = (wire # NoWire)
  BY DEF Shape, ControlShape
<1>5. (pc = "forward") = (forwarding # None)
  BY DEF Shape, ControlShape
<1> QED
  BY <1>1, <1>2, <1>3, <1>4, <1>5, Zenon DEF TypeOK, Shape, Flags

LEMMA InitFlags == Init => Flags
  BY Zenon DEF Init, Flags

(* Queue, cache, bus and thread keep their shape for every size and every  *)
(* number of requests and faults: no request is queued twice and none has  *)
(* two entries in the cache (enqueue, remember), and the thread waits for  *)
(* the bus exactly while a transaction is in flight.                       *)
THEOREM GatewayTypeOKAlways == Spec => []TypeOK
<1>1. Init => Shape /\ Flags
  BY InitShape, InitFlags
<1>2. Shape /\ Flags /\ [Next]_vars => Shape' /\ Flags'
  BY NextShape, NextFlags
<1>3. Shape /\ Flags => TypeOK
  BY ShapeGivesTypeOK
<1> QED
  BY <1>1, <1>2, <1>3, PTL DEF Spec

(* Nothing starts a transaction on the bus before the one in flight has    *)
(* ended: forward() from loop() or a slot, the control and the poll start  *)
(* one only outside every wait, the idle callback (service(false)) never.  *)
THEOREM OneTransactionAtATimeAlways == Spec => OneTransactionAtATime
<1> DEFINE Step == wire # NoWire /\ wire' # NoWire => wire' = wire
<1>1. Shape /\ [Next]_vars => Step
  <2> SUFFICES ASSUME Shape, [Next]_vars, wire # NoWire PROVE wire' = NoWire \/ wire' = wire
    OBVIOUS
  <2>1. pc \in BusWait
    BY DEF Shape, ControlShape
  <2>2. CASE UNCHANGED vars \/ Idle
    BY <2>2 DEF vars, busVars, Idle, Reject, IdleReplies, IdleQueues
  <2>3. CASE Gateway
    BY <2>1, <2>3 DEF Gateway, ServiceForwards, ServiceQueue, ForwardEnds, Receive, BusWait
  <2>4. CASE Batch
    BY <2>1, <2>4 DEF Batch, ReadBack, ReadBackEnds, Write, WriteEnds, Verify, VerifyEnds,
       Slot1, FeedEnds, Slot2, Slot2Taken, NextInverter, BatchEnds, Receive, BusWait
  <2>5. CASE PollEnds
    BY <2>5 DEF PollEnds, Receive
  <2>6. CASE Environment
    BY <2>1, <2>6 DEF Environment, Send, StartBatch, Poll, TakeOver, Switch, Tick,
       BusWait, busVars
  <2> QED
    BY <2>2, <2>3, <2>4, <2>5, <2>6 DEF Next, Thread
<1>2. Spec => [][Step]_vars
  BY InitShape, NextShape, <1>1, PTL DEF Spec
<1> QED
  BY <1>2 DEF OneTransactionAtATime

(* Every answer reaches PlexLog while it waits for it: what has been       *)
(* received, queued for less than QUEUE_MAX_AGE_MS or forwarded is what    *)
(* PlexLog waits for, and PlexLog has waited no longer than the gateway    *)
(* has had it; but for a backlog that a loop() held up outside the bus has *)
(* left in the UART, and until it is worked off.                           *)
THEOREM NeverALateReplyAlways == Spec => []NeverALateReply
<1>1. Init => Shape /\ Promise
  <2> SUFFICES ASSUME Init PROVE Promise
    BY InitShape
  <2>1. Young = {} /\ confused = FALSE /\ receiving = None /\ forwarding = None
    BY DEF Init, Young
  <2> QED
    BY <2>1 DEF Promise, Due
<1>2. Shape /\ Promise /\ [Next]_vars => Shape' /\ Promise'
  BY NextShape, NextPromise
<1>3. Promise => NeverALateReply
  BY DEF Promise, NeverALateReply
<1> QED
  BY <1>1, <1>2, <1>3, PTL DEF Spec

-----------------------------------------------------------------------------
(* What PlexLog is told. *)

LEMMA WatchedAreSlaves == \A s \in Watched : s \in Slaves /\ Limit(s).slave = s
                                             /\ Limit(s) # None
  BY RequestShape DEF Watched, Limit

LEMMA NoWireShape == NoWire.request = None /\ NoAnswer.request = None
                     /\ NoAnswer.data = "none" /\ NoWire.answer = NoAnswer
  BY DEF NoWire, NoAnswer

LEMMA NotMisled ==
    ASSUME ~misled, NEW r, NEW d, SendUpstream(r, d),
           \A s \in Watched : r = Limit(s) /\ d \in Values => d \in since[s]
    PROVE  ~misled'
<1>1. ~(misled \/ \E s \in Watched : r = Limit(s) /\ d \in Values \ since[s])
  OBVIOUS
<1> QED
  BY <1>1, Zenon DEF SendUpstream

(* A reply from the cache is as fresh as the cache. *)
LEMMA ReplyIsFresh ==
    ASSUME Shape, Fresh, NEW r \in Requests, ReplyFromCache(r)
    PROVE  ~misled'
<1>1. \A s \in Watched : r = Limit(s) => cache[First(Recent(r))].data \in since[s]
  BY FirstRecent DEF Shape, Fresh, ReplyFromCache
<1> QED
  BY <1>1, NotMisled DEF Fresh, ReplyFromCache

(* A transmission: the answer is what the register holds. *)
LEMMA TransmitFresh ==
    ASSUME Shape, Fresh, NEW r \in Reads \cup Writes, Transmit(r), Track,
           UNCHANGED <<cache, misled>>, forwarding' \in {None, r}
    PROVE  Fresh'
<1>1. /\ power' \in [Slaves -> Values] /\ wire'.request = r
      /\ wire'.answer.data \in Values => wire'.answer.data = power'[r.slave]
  BY TransmitStep DEF Shape, BusTypeOK
<1>2. \A s \in Watched : since'[s] = since[s] \cup {power'[s]}
  BY DEF Track
<1> QED
  BY <1>1, <1>2, WatchedAreSlaves DEF Fresh

(* The end of a wait of the control: what is published is as new as can be. *)
LEMMA PublishFresh ==
    ASSUME Shape, Fresh, wire' = NoWire, UNCHANGED <<power, misled>>, forwarding' = None,
           \/ UNCHANGED <<cache, since>>
           \/ \E s \in Slaves, v \in Values : PublishVerifiedHolding(s, v)
    PROVE  Fresh'
<1>1. CASE UNCHANGED <<cache, since>>
  BY <1>1, WatchedAreSlaves, NoWireShape DEF Fresh
<1>2. ASSUME NEW s \in Slaves, NEW v \in Values, PublishVerifiedHolding(s, v)
      PROVE  Fresh'
  <2>1. \A i \in 0..CacheEntries - 1 :
           \/ cache'[i] = cache[i] /\ cache[i].request # Limit(s)
           \/ cache'[i].request = Limit(s) /\ cache'[i].data = v
    BY <1>2, StoreStep, RequestShape DEF PublishVerifiedHolding, Shape
  <2>2. \A w \in Watched : since'[w] = IF w = s THEN {v, power[s]} ELSE since[w]
    BY <1>2 DEF PublishVerifiedHolding
  <2>3. Limit(s).slave = s
    BY DEF Limit
  <2>4. \A w \in Watched : power'[w] \in since'[w]
    BY <2>2 DEF Fresh
  <2>5. \A w \in Watched : \A i \in 0..CacheEntries - 1 :
           cache'[i].request = Limit(w) => cache'[i].data \in since'[w]
    BY <2>1, <2>2, <2>3, WatchedAreSlaves DEF Fresh
  <2> QED
    BY <2>4, <2>5, WatchedAreSlaves, NoWireShape DEF Fresh
<1> QED
  BY <1>1, <1>2

(* A step that changes no register, cache or wire. *)
LEMMA FreshKept ==
    ASSUME Shape, Fresh, UNCHANGED <<power, since, cache, wire, forwarding>>, ~misled'
    PROVE  Fresh'
  BY DEF Fresh

(* The answer to a forwarded request is that of the inverter. *)
LEMMA ForwardEndsFresh ==
    ASSUME Shape, Fresh, ForwardEnds, ~crossed'
    PROVE  Fresh'
<1>1. PICK a \in {wire.answer, late, NoAnswer} :
         /\ Receive(a, Fits(late, wire.request))
         /\ IF a = NoAnswer
            THEN UNCHANGED <<plexlogVars, cache, nextCache>>
            ELSE SendUpstream(forwarding, a.data) /\ Remember(forwarding, a.data)
  BY DEF ForwardEnds
<1>2. /\ wire' = NoWire /\ power' = power /\ since' = since /\ forwarding' = None
      /\ a = NoAnswer \/ a = wire.answer
  BY <1>1, ReceiveStep DEF ForwardEnds, Shape, historyVars
<1>3. forwarding # None /\ forwarding = wire.request
  BY DEF ForwardEnds, Shape, ControlShape, Fresh
<1>4. CASE a = NoAnswer
  BY <1>1, <1>2, <1>4, WatchedAreSlaves, NoWireShape DEF Fresh, plexlogVars
<1>5. CASE a # NoAnswer
  <2>1. \A s \in Watched : forwarding = Limit(s) /\ a.data \in Values => a.data \in since[s]
    BY <1>2, <1>3, <1>5 DEF Fresh
  <2>2. ~misled'
    BY <1>1, <1>5, <2>1, NotMisled DEF Fresh
  <2>3. \A i \in 0..CacheEntries - 1 :
           \/ cache'[i] = cache[i]
           \/ cache'[i].request = forwarding /\ cache'[i].data = a.data /\ a.data \in Values
    BY <1>1, <1>5, StoreStep DEF Remember, Shape
  <2>4. \A s \in Watched : \A i \in 0..CacheEntries - 1 :
           cache'[i].request = Limit(s) => cache'[i].data \in since[s]
    BY <2>1, <2>3 DEF Fresh
  <2> QED
    BY <1>2, <2>2, <2>4, WatchedAreSlaves, NoWireShape DEF Fresh
<1> QED
  BY <1>4, <1>5

LEMMA ServiceFresh ==
    ASSUME Shape, Fresh, NEW next, ServiceOneQueued(next)
    PROVE  Fresh'
<1>1. CASE DropAll(next)
  BY <1>1, FreshKept DEF DropAll, busVars, plexlogVars, historyVars, Fresh
<1>2. CASE Rescue(next)
  <2>1. ~misled'
    BY <1>2, FirstYoung, ReplyIsFresh DEF Rescue, Shape
  <2> QED
    BY <1>2, <2>1, FreshKept DEF Rescue, busVars, historyVars
<1>3. CASE ForwardQueued(next)
  <2>1. queue[First(Young)].request \in Reads \cup Writes
    BY <1>3, FirstYoung, RequestShape DEF ForwardQueued, Shape
  <2> QED
    BY <1>3, <2>1, TransmitFresh DEF ForwardQueued, Forward, plexlogVars
<1> QED
  BY <1>1, <1>2, <1>3 DEF ServiceOneQueued

(* Once a late answer has been taken for another, this is remembered. *)
LEMMA CrossedStays == Shape /\ [Next]_vars /\ crossed => crossed'
<1> SUFFICES ASSUME Shape, [Next]_vars, crossed PROVE crossed'
  OBVIOUS
<1>1. ASSUME NEW a, NEW fits, Receive(a, fits) PROVE crossed'
  BY <1>1, ReceiveStep DEF Shape
<1>2. ASSUME NEW r, Transmit(r) PROVE crossed'
  BY <1>2 DEF Transmit
<1>3. CASE UNCHANGED vars \/ Idle
  BY <1>3 DEF vars, busVars, Idle, Reject, IdleReplies, IdleQueues
<1>4. ASSUME NEW next, ServiceOneQueued(next) PROVE crossed'
  BY <1>2, <1>4 DEF ServiceOneQueued, DropAll, Rescue, ForwardQueued, Forward, busVars
<1>5. CASE Gateway
  BY <1>1, <1>2, <1>4, <1>5 DEF Gateway, ServiceForwards, ServiceQueue, ForwardEnds, Forward
<1>6. CASE Batch
  BY <1>1, <1>2, <1>4, <1>6 DEF Batch, ReadBack, ReadBackEnds, Write, WriteEnds, Verify,
     VerifyEnds, Slot1, FeedEnds, Slot2, Slot2Taken, NextInverter, BatchEnds, Transact, busVars
<1>7. CASE PollEnds
  BY <1>1, <1>7 DEF PollEnds
<1>8. CASE Environment
  BY <1>2, <1>8 DEF Environment, Send, StartBatch, Poll, TakeOver, Switch, Tick, busVars
<1> QED
  BY <1>3, <1>5, <1>6, <1>7, <1>8 DEF Next, Thread

LEMMA NextFresh == Shape /\ Fresh /\ [Next]_vars /\ ~crossed' => Fresh'
<1> SUFFICES ASSUME Shape, Fresh, [Next]_vars, ~crossed' PROVE Fresh'
  OBVIOUS
<1>0. ~misled /\ (pc # "forward" => forwarding = None)
  BY DEF Fresh, Shape, ControlShape
<1>1. ASSUME UNCHANGED <<power, since, cache, wire, forwarding, misled>> PROVE Fresh'
  BY <1>0, <1>1, FreshKept
<1>2. CASE UNCHANGED vars
  BY <1>1, <1>2 DEF vars, busVars, gatewayVars, plexlogVars, historyVars
<1>3. CASE ServiceForwards
  <2>1. receiving \in Reads \cup Writes
    BY <1>3, RequestShape DEF ServiceForwards
  <2> QED
    BY <1>3, <2>1, TransmitFresh DEF ServiceForwards, Forward, plexlogVars
<1>4. CASE ServiceQueue \/ Slot1 \/ Slot2
  BY <1>4, ServiceFresh DEF ServiceQueue, Slot1, Slot2
<1>5. CASE ForwardEnds
  BY <1>5, ForwardEndsFresh
<1>6. CASE Reject \/ IdleQueues
  BY <1>1, <1>6 DEF Reject, IdleQueues, busVars, plexlogVars, historyVars
<1>7. CASE IdleReplies
  <2>1. ~misled'
    BY <1>7, ReplyIsFresh DEF IdleReplies
  <2> QED
    BY <1>7, <2>1, FreshKept DEF IdleReplies, busVars, historyVars
<1>8. ASSUME NEW r \in Reads \cup Writes, NEW wait, Transact(r, wait), Track,
             pc # "forward"
      PROVE  Fresh'
  BY <1>0, <1>8, TransmitFresh DEF Transact, BatchStep, plexlogVars
<1>9. pc \in InBatch \cup {"poll"} => inverter \in Slaves /\ (pc # "poll" => target \in Values)
  BY DEF Shape, ControlShape, InBatch, WriteAndVerify
<1>10. CASE ReadBack \/ Verify
  <2>1. Limit(inverter) \in Reads /\ pc # "forward"
    BY <1>9, <1>10, RequestShape DEF ReadBack, Verify, InBatch, WriteAndVerify
  <2> QED
    BY <1>8, <1>10, <2>1 DEF ReadBack, Verify
<1>11. CASE Write
  <2>1. WriteLimit(inverter, target) \in Writes /\ pc # "forward"
    BY <1>9, <1>11, RequestShape DEF Write, InBatch, WriteAndVerify
  <2> QED
    BY <1>8, <1>11, <2>1 DEF Write
<1>12. CASE ReadBackEnds \/ WriteEnds \/ VerifyEnds \/ PollEnds
  <2>1. pc \in InBatch \cup {"poll"} /\ pc # "forward"
    BY <1>12 DEF ReadBackEnds, WriteEnds, VerifyEnds, PollEnds, InBatch, WriteAndVerify
  <2>2. UNCHANGED misled /\ forwarding' = None
    BY <1>0, <1>12, <2>1
       DEF ReadBackEnds, WriteEnds, VerifyEnds, PollEnds, BatchStep, plexlogVars
  <2>3. wire' = NoWire /\ UNCHANGED power
    BY <1>12 DEF ReadBackEnds, WriteEnds, VerifyEnds, PollEnds, Receive
  <2>4. \/ UNCHANGED <<cache, since>>
        \/ \E v \in Values : PublishVerifiedHolding(inverter, v)
    <3>1. CASE ReadBackEnds
      BY <3>1 DEF ReadBackEnds, Ok, historyVars
    <3>2. CASE WriteEnds
      BY <3>2 DEF WriteEnds, historyVars
    <3>3. CASE VerifyEnds
      BY <1>9, <3>3 DEF VerifyEnds, historyVars, InBatch, WriteAndVerify
    <3>4. CASE PollEnds
      BY <3>4 DEF PollEnds, Ok
    <3> QED
      BY <1>12, <3>1, <3>2, <3>3, <3>4
  <2> QED
    BY <1>9, <2>1, <2>2, <2>3, <2>4, PublishFresh
<1>13. CASE FeedEnds \/ Slot2Taken \/ NextInverter
  BY <1>1, <1>13
     DEF FeedEnds, Slot2Taken, NextInverter, BatchStep, busVars, plexlogVars, historyVars
<1>14. CASE BatchEnds \/ Switch
  BY <1>1, <1>14
     DEF BatchEnds, Switch, busVars, gatewayVars, plexlogVars, historyVars
<1>15. ASSUME NEW v, StartBatch(v) PROVE Fresh'
  BY <1>1, <1>15 DEF StartBatch, busVars, gatewayVars, plexlogVars, historyVars
<1>16. ASSUME NEW r, Send(r) PROVE Fresh'
  BY <1>1, <1>16 DEF Send, busVars, historyVars
<1>17. ASSUME NEW s \in Slaves, Poll(s) PROVE Fresh'
  BY <1>0, <1>17, RequestShape, TransmitFresh DEF Poll, gatewayVars, plexlogVars
<1>18. ASSUME NEW s \in Slaves, TakeOver(s) PROVE Fresh'
  <2>1. \A w \in Watched : since'[w] = since[w] \cup {power'[w]}
    BY <1>18 DEF TakeOver, Track
  <2> QED
    BY <1>18, <2>1 DEF TakeOver, Fresh, gatewayVars, plexlogVars
<1>19. CASE Tick
  <2>1. UNCHANGED <<power, since, wire, forwarding, misled>>
    BY <1>19 DEF Tick, busVars, historyVars
  <2> QED
    BY <1>19, <2>1, TickStep DEF Fresh
<1> QED
  BY <1>2, <1>3, <1>4, <1>5, <1>6, <1>7, <1>10, <1>11, <1>12, <1>13, <1>14, <1>15,
     <1>16, <1>17, <1>18, <1>19
     DEF Next, Thread, Gateway, Idle, Batch, Environment

(* An answer to PlexLog says of a limit only what has been its value since *)
(* control last verified it and published it: cache, queue and wire hold   *)
(* nothing older, unless a late answer was taken for another.              *)
THEOREM RepliesAreCurrentAlways == Spec => []RepliesAreCurrent
<1>1. Init => Shape /\ Current
  <2> SUFFICES ASSUME Init PROVE Fresh
    BY InitShape DEF Current
  <2>1. ~misled /\ forwarding = None /\ wire = NoWire
    BY DEF Init, BusInit
  <2>2. \A s \in Watched : power[s] \in since[s]
    BY DEF Init
  <2>3. \A i \in 0..CacheEntries - 1 : cache[i].request = None
    BY EmptyIsNoEntry DEF Init
  <2> QED
    BY <2>1, <2>2, <2>3, WatchedAreSlaves, NoWireShape DEF Fresh
<1>2. Shape /\ Current /\ [Next]_vars => Shape' /\ Current'
  BY NextShape, CrossedStays, NextFresh DEF Current
<1>3. Current => RepliesAreCurrent
  BY DEF Current, Fresh, RepliesAreCurrent
<1> QED
  BY <1>1, <1>2, <1>3, PTL DEF Spec

-----------------------------------------------------------------------------
(* What has been verified. *)

(* A late answer that is taken for the answer to a limit was for it. *)
LEMMA ExactIsOwn ==
    ASSUME Shape, NEW s \in Slaves, FitsExactly(late, Limit(s))
    PROVE  late.request = Limit(s)
<1>1. late \in Answers
  BY DEF Shape, BusTypeOK, FitsExactly, Fits
<1>2. late.request \in Reads \cup Writes
  BY <1>1, AnswerShape
<1>3. /\ late.request.slave = s /\ late.request.function = "read"
      /\ late.request.what = "limit"
  BY DEF FitsExactly, Fits, Limit
<1>4. late.request \in Reads
  BY <1>2, <1>3, RequestShape
<1>5. PICK w \in Slaves : late.request = Limit(w) \/ late.request = Block(w)
  BY <1>4 DEF Reads
<1>6. late.request # Block(w)
  BY <1>3 DEF Block
<1>7. Limit(w).slave = w
  BY DEF Limit
<1> QED
  BY <1>3, <1>5, <1>6, <1>7

(* The requests of a write and of a read are told apart. *)
LEMMA WriteIsNoRead ==
    ASSUME NEW s \in Slaves, NEW v, NEW w \in Slaves
    PROVE  WriteLimit(s, v) # Limit(w) /\ Limit(w) # None
<1>1. WriteLimit(s, v).function = "write" /\ Limit(w).function = "read"
      /\ None.function = "none"
  BY DEF WriteLimit, Limit, None
<1> QED
  BY <1>1

LEMMA WitnessedKept ==
    ASSUME Witnessed, UNCHANGED <<wire, late, inverter, target>>, held => held',
           pc' = pc \/ pc' \notin {"ack", "verify", "settle", "recheck"}
    PROVE  Witnessed'
  BY DEF Witnessed

(* The steps of writeAndVerify(), as far as what it has seen is concerned. *)
LEMMA WriteWitnessed ==
    ASSUME Shape, Witnessed, Write \/ WriteEnds \/ Verify \/ VerifyEnds
    PROVE  Witnessed' /\ (pc = "verify" /\ pc' = "slot1" => held)
<1>1. inverter \in Slaves /\ target \in Values
  BY DEF Shape, ControlShape, InBatch, WriteAndVerify, Write, WriteEnds, Verify, VerifyEnds
<1>2. inverter' = inverter /\ target' = target
  BY DEF Write, WriteEnds, Verify, VerifyEnds, Transact
<1>3. /\ Limit(inverter) \in Reads /\ WriteLimit(inverter, target) \in Writes
      /\ Limit(inverter).slave = inverter /\ Limit(inverter) # None
      /\ WriteLimit(inverter, target) # Limit(inverter)
  BY <1>1, RequestShape, WriteIsNoRead DEF Limit
<1>4. CASE Write
  <2>1. wire'.request = WriteLimit(inverter, target) /\ pc' = "ack" /\ pc # "verify"
    BY <1>3, <1>4, TransmitStep DEF Write, Transact, Shape
  <2> QED
    BY <1>2, <2>1 DEF Witnessed
<1>5. CASE WriteEnds
  <2>1. wire.request = WriteLimit(inverter, target) /\ pc' = "settle" /\ pc # "verify"
    BY <1>5 DEF WriteEnds, Witnessed
  <2>2. late' \in {NoAnswer, wire.answer} /\ wire # NoWire
    BY <1>5, ReceiveStep DEF WriteEnds, Shape
  <2>3. late'.request \in {None, WriteLimit(inverter, target)}
    BY <2>1, <2>2, NoWireShape DEF Shape, BusTypeOK, AnswersTo
  <2> QED
    BY <1>2, <1>3, <2>1, <2>3 DEF Witnessed
<1>6. CASE Verify
  <2>1. /\ wire'.request = Limit(inverter) /\ late' = late
        /\ wire'.answer.data \in Values => wire'.answer.data = power'[inverter]
    BY <1>3, <1>6, TransmitStep DEF Verify, Transact, Shape
  <2>2. pc \in {"settle", "recheck"} /\ pc' = "verify"
    BY <1>6 DEF Verify, Transact
  <2>3. held' = (held \/ (pc \in WriteAndVerify /\ power'[inverter] = target))
    BY <1>6 DEF Verify, Track
  <2>4. held => held'
    BY <2>3, Zenon
  <2>5. power'[inverter] = target => held'
    <3>1. pc \in WriteAndVerify
      BY <2>2 DEF WriteAndVerify
    <3> QED
      BY <2>3, <3>1, Zenon
  <2> QED
    BY <1>1, <1>2, <2>1, <2>2, <2>4, <2>5 DEF Witnessed
<1>7. CASE VerifyEnds
  <2>1. PICK a : /\ Receive(a, FitsExactly(late, wire.request))
                 /\ \/ Ok(a) /\ a.data = target /\ held' = held
                    \/ held' = held /\ pc' # "slot1"
    BY <1>7 DEF VerifyEnds, historyVars
  <2>2. /\ late' \in {NoAnswer, wire.answer} /\ wire # NoWire
        /\ a # NoAnswer => \/ a = wire.answer
                           \/ a = late /\ FitsExactly(late, wire.request)
    BY <2>1, ReceiveStep DEF Shape
  <2>3. wire.request = Limit(inverter) /\ (wire.answer.data = target => held)
    BY <1>7 DEF VerifyEnds, Witnessed
  <2>4. late.request = Limit(inverter) /\ late.data = target => held
    BY <1>7 DEF VerifyEnds, Witnessed
  <2>5. a # NoAnswer /\ a.data = target => held
    BY <1>1, <2>2, <2>3, <2>4, ExactIsOwn
  <2>6. pc' = "slot1" => held
    BY <2>1, <2>5 DEF Ok
  <2>7. late'.request = Limit(inverter) /\ late'.data = target => held'
    BY <1>3, <2>1, <2>2, <2>3, NoWireShape
  <2>8. pc' \in {"slot1", "recheck", "backoff", "feed"}
    BY <1>7 DEF VerifyEnds
  <2> QED
    BY <1>2, <2>6, <2>7, <2>8 DEF Witnessed
<1> QED
  BY <1>4, <1>5, <1>6, <1>7

LEMMA NextWitnessed ==
    Shape /\ Witnessed /\ [Next]_vars =>
        Witnessed' /\ ((pc = "ack" \/ pc = "verify") /\ pc' = "slot1" => held)
<1> SUFFICES ASSUME Shape, Witnessed, [Next]_vars
             PROVE  Witnessed' /\ ((pc = "ack" \/ pc = "verify") /\ pc' = "slot1" => held)
  OBVIOUS
<1> DEFINE Written == {"ack", "verify", "settle", "recheck"}
           Goal == Witnessed' /\ ((pc = "ack" \/ pc = "verify") /\ pc' = "slot1" => held)
<1>1. ASSUME pc' \notin Written, pc' # "slot1" \/ pc \notin {"ack", "verify"} PROVE Goal
  BY <1>1 DEF Witnessed
<1>2. ASSUME UNCHANGED <<pc, wire, late, inverter, target>>, held => held' PROVE Goal
  BY <1>2, WitnessedKept
<1>3. Track => (held => held')
  BY Zenon DEF Track
<1>4. CASE UNCHANGED vars
  BY <1>2, <1>4 DEF vars, busVars, batchVars, historyVars
<1>5. CASE Idle
  BY <1>2, <1>5 DEF Idle, Reject, IdleReplies, IdleQueues, busVars, batchVars, historyVars
<1>6. CASE ServiceForwards \/ ReadBack
  BY <1>1, <1>6 DEF ServiceForwards, Forward, ReadBack, Transact
<1>7. ASSUME NEW next \in {"loop", "feed", "next"}, ServiceOneQueued(next) PROVE Goal
  BY <1>1, <1>7 DEF ServiceOneQueued, DropAll, Rescue, ForwardQueued, Forward
<1>8. CASE ServiceQueue \/ Slot1 \/ Slot2
  BY <1>7, <1>8 DEF ServiceQueue, Slot1, Slot2
<1>9. CASE ForwardEnds
  <2>1. pc' \in {"loop", "queued", "feed", "next"}
    BY <1>9 DEF ForwardEnds, Shape, ControlShape
  <2> QED
    BY <1>1, <2>1
<1>10. CASE ReadBackEnds \/ FeedEnds \/ Slot2Taken \/ NextInverter \/ BatchEnds \/ PollEnds
  BY <1>1, <1>10
     DEF ReadBackEnds, FeedEnds, Slot2Taken, NextInverter, BatchEnds, PollEnds
<1>11. CASE Write \/ WriteEnds \/ Verify \/ VerifyEnds
  <2>1. pc = "ack" => pc' # "slot1"
    BY <1>11 DEF Write, WriteEnds, Verify, VerifyEnds
  <2> QED
    BY <1>11, <2>1, WriteWitnessed
<1>12. CASE \/ \E r \in Requests \cup {Unsupported} : Send(r)
            \/ Switch \/ Tick
  BY <1>2, <1>12 DEF Send, Switch, Tick, busVars, batchVars, historyVars
<1>13. CASE \/ \E v \in Values : StartBatch(v)
            \/ \E s \in Slaves : Poll(s)
  BY <1>1, <1>13 DEF StartBatch, Poll
<1>14. CASE \E s \in Slaves : TakeOver(s)
  BY <1>2, <1>3, <1>14 DEF TakeOver, batchVars
<1>15. CASE Gateway
  BY <1>6, <1>8, <1>9, <1>15 DEF Gateway
<1>16. CASE Batch
  BY <1>6, <1>8, <1>10, <1>11, <1>16 DEF Batch
<1>17. CASE Environment
  BY <1>12, <1>13, <1>14, <1>17 DEF Environment
<1> QED
  BY <1>4, <1>5, <1>10, <1>15, <1>16, <1>17 DEF Next, Thread

(* A limit reported as verified was in the register during the write,      *)
(* whatever was lost or late: only the answer to a readback of this very   *)
(* register counts, and a late one is at most one transaction old, so that *)
(* it was read after the write began, too (writeAndVerify).                *)
THEOREM VerifiedWasHeldAlways == Spec => VerifiedWasHeld
<1> DEFINE Step == (pc = "ack" \/ pc = "verify") /\ pc' = "slot1" => held
<1>1. Init => Shape /\ Witnessed
  BY InitShape DEF Init, Witnessed
<1>2. Shape /\ Witnessed /\ [Next]_vars => Shape' /\ Witnessed' /\ Step
  BY NextShape, NextWitnessed
<1>3. Spec => [][Step]_vars
  BY <1>1, <1>2, PTL DEF Spec
<1> QED
  BY <1>3 DEF VerifiedWasHeld
=============================================================================
