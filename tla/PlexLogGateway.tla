--------------------------- MODULE PlexLogGateway ---------------------------
(***************************************************************************)
(* The gateway between the data logger PlexLog and the inverter bus        *)
(* (PlexLogGateway.cpp), with the two users of the bus in main.cpp: a      *)
(* batch of verified writes (applyLevel) and the background poll.          *)
(*                                                                         *)
(* One thread runs all of it.  loop() lets the gateway forward; while the  *)
(* thread waits for the bus, the idle callback lets it only collect a      *)
(* request and answer it from the cache or queue it; and a batch gives it  *)
(* two slots per inverter.                                                 *)
(*                                                                         *)
(* PlexLog waits for one request at a time and gives up after Patience.    *)
(* Time is counted in ticks as long as the age of the oldest request that  *)
(* is still served.  In a wait the callback runs every millisecond, so     *)
(* that a service takes none; but loop() itself may be held up, by an OTA  *)
(* check, the wait for the network time or a download, and nobody looks at *)
(* the UART meanwhile.                                                     *)
(***************************************************************************)
EXTENDS ModbusRtuMaster, Integers, Sequences, FiniteSets

CONSTANTS
    Requests,           \* what PlexLog asks for
    QueueDepth, CacheEntries,
    QueueMaxAge, ForwardTimeout, ResponseTimeout, CacheTtl, ControlCacheTtl,
    Retries,            \* config.verifyRetries
    Patience,
    MaxRequests,        \* bound on what PlexLog sends
    MaxUses             \* bound on batches, polls, and plexlog on or off

ASSUME GatewayAssumption ==
    /\ Requests \subseteq Reads \cup Writes
    /\ QueueDepth \in 1..8 /\ CacheEntries \in 1..128
    /\ {QueueMaxAge, ForwardTimeout, ResponseTimeout, CacheTtl, Retries,
        Patience} \subseteq Nat \ {0}
    /\ CacheTtl <= ControlCacheTtl /\ ControlCacheTtl \in Nat
    /\ MaxRequests \in Nat /\ MaxUses \in Nat

(* A request queued for the whole of its life and then forwarded is        *)
(* answered before PlexLog gives up.                                       *)
ASSUME PatienceAssumption == QueueMaxAge + ForwardTimeout < Patience

(* Damaged, or not for IDs 2-7, or a function that is not forwarded.       *)
Unsupported == [slave |-> 0, function |-> "unsupported", what |-> "none"]

Watched == {s \in Slaves : Limit(s) \in Requests}

Empty == [request |-> None, data |-> "none", age |-> 0]

VARIABLES
    enabled,                    \* baud_ # 0
    receiving, queue, cache, nextCache,
    forwarding, controlBusy,
    pc, ret,                    \* where the thread is, and returns to
    elapsed,                    \* of the transaction in flight
    inverter, target, attempt, verifyPoll, plexlogSlotServed,
    outstanding, waited,        \* PlexLog: its request, and since when
    unserved,                   \* a request lay in the UART, and the backlog
                                \* it left is not worked off
    confused,                   \* without such a backlog, PlexLog got an
                                \* answer it did not wait for
    misled,                     \* it was told a limit older than published
    since,                      \* values of a register since last published
    held,                       \* the target since the write began
    requests, uses              \* counted against the bounds

gatewayVars == <<receiving, queue, cache, nextCache, forwarding>>
batchVars == <<inverter, target, attempt, verifyPoll, plexlogSlotServed, controlBusy>>
plexlogVars == <<outstanding, waited, unserved, confused, misled>>
historyVars == <<since, held>>
boundVars == <<requests, uses>>
vars == <<busVars, enabled, gatewayVars, batchVars, pc, ret, elapsed,
          plexlogVars, historyVars, boundVars>>

(* Waits of the thread: for the bus, or for time to pass.                  *)
BusWait == {"forward", "preread", "ack", "verify", "poll"}
Pause == {"settle", "recheck", "backoff", "feed", "gap"}
Waits == BusWait \cup Pause
WriteAndVerify == {"write", "ack", "settle", "verify", "recheck", "backoff"}

MaxAge == ControlCacheTtl + 1

TypeOK ==
    /\ BusTypeOK
    /\ enabled \in BOOLEAN /\ controlBusy \in BOOLEAN
    /\ unserved \in BOOLEAN /\ confused \in BOOLEAN /\ misled \in BOOLEAN
    /\ receiving \in Requests \cup {None, Unsupported}
    /\ Len(queue) <= QueueDepth
    /\ \A i \in DOMAIN queue : /\ queue[i].request \in Requests
                               /\ queue[i].age \in 0..QueueMaxAge + 1
    /\ \A i, j \in DOMAIN queue : queue[i].request = queue[j].request => i = j
    /\ DOMAIN cache = 0..CacheEntries - 1
    /\ \A i \in DOMAIN cache :
          \/ cache[i] = Empty
          \/ cache[i].request \in Reads /\ cache[i].data \in Values
             /\ cache[i].age \in 0..MaxAge
    /\ \A i, j \in DOMAIN cache :
          cache[i].request = cache[j].request /\ cache[i] # Empty => i = j
    /\ nextCache \in 0..CacheEntries - 1
    /\ pc \in Waits \cup {"loop", "queued", "batch", "write", "read", "slot1",
                          "slot2", "next"}
    /\ (pc \in BusWait) = (wire # NoWire)
    /\ (pc = "forward") = (forwarding # None)
    /\ ret \in {"loop", "queued", "feed", "next"}
    /\ plexlogSlotServed \in BOOLEAN
    /\ outstanding \in Requests \cup {None, Unsupported}
    /\ waited \in 0..Patience - 1

Init ==
    /\ BusInit
    /\ enabled \in BOOLEAN
    /\ receiving = None /\ queue = <<>> /\ forwarding = None
    /\ cache = [i \in 0..CacheEntries - 1 |-> Empty] /\ nextCache = 0
    /\ controlBusy = FALSE /\ plexlogSlotServed = FALSE
    /\ pc = "loop" /\ ret = "loop" /\ elapsed = 0
    /\ inverter = 0 /\ target = "none" /\ attempt = 0 /\ verifyPoll = 0
    /\ outstanding = None /\ waited = 0
    /\ unserved = FALSE /\ confused = FALSE /\ misled = FALSE
    /\ since = [s \in Watched |-> {power[s]}] /\ held = FALSE
    /\ requests = 0 /\ uses = 0

-----------------------------------------------------------------------------
(* PlexLog, and what it sees. *)

(* sendUpstream(): PlexLog takes an answer for that of its request.        *)
SendUpstream(r, d) ==
    /\ IF outstanding = r
       THEN outstanding' = None /\ waited' = 0 /\ UNCHANGED confused
       ELSE confused' = (confused \/ ~unserved) /\ UNCHANGED <<outstanding, waited>>
    /\ UNCHANGED unserved
    /\ misled' = (misled \/ \E s \in Watched :
                     r = Limit(s) /\ d \in Values \ since[s])

Use == uses < MaxUses /\ uses' = uses + 1

-----------------------------------------------------------------------------
(* Cache and queue. *)

(* replyFromCache(): an entry of this very request, recent enough.         *)
AllowedAge == IF controlBusy THEN ControlCacheTtl ELSE CacheTtl

Recent(r) == {i \in DOMAIN cache : cache[i].request = r /\ cache[i].age <= AllowedAge}

First(S) == CHOOSE i \in S : \A j \in S : i <= j

ReplyFromCache(r) ==
    Recent(r) # {} /\ SendUpstream(r, cache[First(Recent(r))].data)

(* Mutant: always the oldest entry.                                        *)
StoreAgain(r, d) ==
    /\ cache' = [cache EXCEPT ![nextCache] = [request |-> r, data |-> d, age |-> 0]]
    /\ nextCache' = (nextCache + 1) % CacheEntries

(* The entry of the request, or else the oldest entry, is replaced.        *)
Store(r, d) ==
    LET own == {i \in DOMAIN cache : cache[i].request = r}
        i == IF own = {} THEN nextCache ELSE First(own)
    IN  /\ cache' = [cache EXCEPT ![i] = [request |-> r, data |-> d, age |-> 0]]
        /\ nextCache' = IF own = {} THEN (nextCache + 1) % CacheEntries
                                    ELSE nextCache

(* remember(): data of reads only, no exceptions.                          *)
Remember(r, d) ==
    IF r \in Reads /\ d \in Values THEN Store(r, d)
                                   ELSE UNCHANGED <<cache, nextCache>>

(* publishVerifiedHolding(), with what the reader saw.                     *)
PublishVerifiedHolding(s, v) ==
    /\ Store(Limit(s), v)
    /\ since' = [w \in Watched |-> IF w = s THEN {v, power[s]} ELSE since[w]]

(* Mutant: retries fill the queue.                                         *)
EnqueueAgain(r) ==
    IF Len(queue) >= QueueDepth
    THEN UNCHANGED queue
    ELSE queue' = Append(queue, [request |-> r, age |-> 0])

(* enqueue(): an identical request is taken for a retry and keeps the age  *)
(* of the first; a full queue drops the request.                           *)
Enqueue(r) ==
    IF (\E i \in DOMAIN queue : queue[i].request = r) \/ Len(queue) >= QueueDepth
    THEN UNCHANGED queue
    ELSE queue' = Append(queue, [request |-> r, age |-> 0])

(* Mutant: requests never get too old.                                     *)
YoungAtAnyAge == DOMAIN queue

(* The requests that serviceOneQueued() still serves.                      *)
Young == {i \in DOMAIN queue : queue[i].age <= QueueMaxAge}

Backlog == receiving # None \/ forwarding # None \/ Young # {}

(* A new request, or the same again, once the last is answered or given up.*)
(* Behind a request that still lies in the UART the two are one frame with *)
(* a wrong checksum (collect(), validCrc()).                               *)
Send(r) ==
    /\ requests < MaxRequests /\ requests' = requests + 1
    /\ outstanding = None
    /\ receiving' = IF ~enabled THEN None
                    ELSE IF receiving = None THEN r ELSE Unsupported
    /\ outstanding' = r /\ waited' = 0
    /\ unserved' = (unserved /\ Backlog)
    /\ UNCHANGED <<busVars, enabled, queue, cache, nextCache, forwarding,
                   batchVars, pc, ret, elapsed, confused, misled,
                   historyVars, uses>>

(* History of the registers: called by every step that changes one.        *)
Track ==
    /\ since' = [s \in Watched |-> since[s] \cup {power'[s]}]
    /\ held' = (held \/ (pc \in WriteAndVerify /\ power'[inverter] = target))

-----------------------------------------------------------------------------
(* Forwarding. *)

(* forward(): up to the wait for the inverter.                             *)
Forward(r, next) ==
    /\ Transmit(r) /\ Track
    /\ forwarding' = r /\ elapsed' = 0 /\ pc' = "forward" /\ ret' = next

(* The rest of it: an answer goes up and into the cache.                   *)
ForwardEnds ==
    /\ pc = "forward"
    /\ \E a \in {wire.answer, late, NoAnswer} :
          /\ Receive(a, Fits(late, wire.request))
          /\ IF a = NoAnswer
             THEN UNCHANGED <<plexlogVars, cache, nextCache>>
             ELSE SendUpstream(forwarding, a.data) /\ Remember(forwarding, a.data)
          /\ plexlogSlotServed' = (a # NoAnswer /\ ret = "feed")
    /\ forwarding' = None /\ pc' = ret /\ ret' = "loop" /\ elapsed' = 0
    /\ UNCHANGED <<enabled, receiving, queue, inverter, target,
                   attempt, verifyPoll, controlBusy, historyVars, boundVars>>

(* serviceOneQueued(): requests that are too old are dropped; the first    *)
(* other one is answered from the cache, for it may have been published    *)
(* since, or forwarded.                                                    *)
DropAll(next) ==
    /\ Young = {}
    /\ queue' = <<>> /\ pc' = next /\ plexlogSlotServed' = FALSE
    /\ UNCHANGED <<busVars, enabled, receiving, cache, nextCache, forwarding,
                   ret, elapsed, inverter, target, attempt, verifyPoll,
                   controlBusy, plexlogVars, historyVars, boundVars>>

Rescue(next) ==
    /\ Young # {} /\ ReplyFromCache(queue[First(Young)].request)
    /\ queue' = SubSeq(queue, First(Young) + 1, Len(queue))
    /\ pc' = next /\ plexlogSlotServed' = (next = "feed")
    /\ UNCHANGED <<busVars, enabled, receiving, cache, nextCache, forwarding,
                   ret, elapsed, inverter, target, attempt, verifyPoll,
                   controlBusy, historyVars, boundVars>>

ForwardQueued(next) ==
    /\ Young # {} /\ Recent(queue[First(Young)].request) = {}
    /\ Forward(queue[First(Young)].request, next)
    /\ queue' = SubSeq(queue, First(Young) + 1, Len(queue))
    /\ UNCHANGED <<enabled, receiving, cache, nextCache, batchVars,
                   plexlogVars, boundVars>>

ServiceOneQueued(next) ==
    /\ forwarding = None
    /\ DropAll(next) \/ Rescue(next) \/ ForwardQueued(next)

-----------------------------------------------------------------------------
(* service(true), from loop(): a received request is forwarded at once,    *)
(* and then one of the queue.                                              *)
ServiceForwards ==
    /\ pc = "loop" /\ enabled /\ receiving \in Requests /\ forwarding = None
    /\ receiving' = None
    /\ Forward(receiving, "queued")
    /\ UNCHANGED <<enabled, queue, cache, nextCache, batchVars, plexlogVars,
                   boundVars>>

ServiceQueue ==
    /\ \/ pc = "loop" /\ enabled /\ receiving = None /\ queue # <<>>
       \/ pc = "queued"
    /\ ServiceOneQueued("loop")

(* Nothing for the inverters: dropped, wherever the thread is.             *)
Reject ==
    /\ pc \in Waits \cup {"loop"} /\ enabled /\ receiving = Unsupported
    /\ receiving' = None
    /\ UNCHANGED <<busVars, enabled, queue, cache, nextCache, forwarding,
                   batchVars, pc, ret, elapsed, plexlogVars, historyVars, boundVars>>

(* service(false), from the idle callback in every wait, and before        *)
(* service(true) in loop().                                                *)
IdleReplies ==
    /\ pc \in Waits \cup {"loop"} /\ enabled /\ receiving \in Requests
    /\ ReplyFromCache(receiving)
    /\ receiving' = None
    /\ UNCHANGED <<busVars, enabled, queue, cache, nextCache, forwarding,
                   batchVars, pc, ret, elapsed, historyVars, boundVars>>

(* Mutant: the bus counts as available in the callback.                    *)
IdleForwards ==
    /\ pc \in Waits /\ enabled /\ receiving \in Requests /\ forwarding = None
    /\ Recent(receiving) = {}
    /\ Forward(receiving, "loop")
    /\ receiving' = None
    /\ UNCHANGED <<enabled, queue, cache, nextCache, batchVars, plexlogVars,
                   boundVars>>

(* No recent entry: queued.                                                *)
IdleQueues ==
    /\ pc \in Waits \cup {"loop"} /\ enabled /\ receiving \in Requests
    /\ Recent(receiving) = {}
    /\ Enqueue(receiving)
    /\ receiving' = None
    /\ UNCHANGED <<busVars, enabled, cache, nextCache, forwarding, batchVars,
                   pc, ret, elapsed, plexlogVars, historyVars, boundVars>>

-----------------------------------------------------------------------------
(* applyLevel(): per inverter a readback, a verified write if it differs,  *)
(* and the feed permission; with the waits and slots that it gives.        *)
BatchStep == UNCHANGED <<enabled, receiving, queue, forwarding, ret,
                         controlBusy, plexlogVars, boundVars>>

StartBatch(v) ==
    /\ pc = "loop" /\ Slaves # {} /\ Use
    /\ controlBusy' = TRUE /\ target' = v /\ inverter' = First(Slaves)
    /\ plexlogSlotServed' = FALSE /\ pc' = "read"
    /\ UNCHANGED <<busVars, enabled, gatewayVars, ret, elapsed, attempt,
                   verifyPoll, plexlogVars, historyVars, requests>>

(* A transaction of the control for the inverter at hand.                  *)
Transact(r, wait) ==
    /\ Transmit(r) /\ elapsed' = 0 /\ pc' = wait
    /\ BatchStep
    /\ UNCHANGED <<cache, nextCache, inverter, target, plexlogSlotServed>>

ReadBack ==
    /\ pc \in {"read", "gap"} /\ Transact(Limit(inverter), "preread") /\ Track
    /\ UNCHANGED <<attempt, verifyPoll>>

Ok(a) == a # NoAnswer /\ a.data \in Values

(* At the target, or superseded by a newer input: no write.                *)
ReadBackEnds ==
    /\ pc = "preread"
    /\ \E a \in {wire.answer, late, NoAnswer}, superseded \in BOOLEAN :
          /\ Receive(a, FitsExactly(late, wire.request))
          /\ \/ /\ Ok(a) /\ (superseded \/ a.data = target)
                /\ PublishVerifiedHolding(inverter, a.data)
                /\ pc' = "slot1" /\ UNCHANGED held
             \/ /\ ~superseded /\ (Ok(a) => a.data # target)
                /\ held' = (power[inverter] = target)
                /\ pc' = "write" /\ UNCHANGED <<cache, nextCache, since>>
             \/ /\ superseded /\ ~Ok(a)
                /\ pc' = "feed"
                /\ UNCHANGED <<cache, nextCache, historyVars>>
    /\ elapsed' = 0 /\ BatchStep
    /\ UNCHANGED <<inverter, target, attempt, verifyPoll, plexlogSlotServed>>

(* writeAndVerify(): only the readback counts, not the acknowledgement; a  *)
(* value still old is looked at once more before the next attempt.         *)
Write ==
    /\ pc \in {"write", "backoff"}
    /\ attempt' = attempt + 1
    /\ Transact(WriteLimit(inverter, target), "ack") /\ Track
    /\ UNCHANGED verifyPoll

(* Mutant: the acknowledgement of the write is trusted.                    *)
WriteEndsTrusted ==
    /\ pc = "ack"
    /\ \E a \in {wire.answer, late, NoAnswer} :
          /\ Receive(a, Fits(late, wire.request))
          /\ IF a # NoAnswer
             THEN /\ PublishVerifiedHolding(inverter, target) /\ UNCHANGED held
                  /\ pc' = "slot1"
             ELSE pc' = "settle" /\ UNCHANGED <<cache, nextCache, historyVars>>
    /\ elapsed' = 0 /\ BatchStep
    /\ UNCHANGED <<inverter, target, attempt, verifyPoll, plexlogSlotServed>>

WriteEnds ==
    /\ pc = "ack"
    /\ \E a \in {wire.answer, late, NoAnswer} : Receive(a, Fits(late, wire.request))
    /\ pc' = "settle" /\ elapsed' = 0
    /\ BatchStep
    /\ UNCHANGED <<cache, nextCache, inverter, target, attempt,
                   verifyPoll, plexlogSlotServed, historyVars>>

Verify ==
    /\ pc \in {"settle", "recheck"} /\ Transact(Limit(inverter), "verify") /\ Track
    /\ verifyPoll' = IF pc = "settle" THEN 0 ELSE 1
    /\ UNCHANGED attempt

VerifyEnds ==
    /\ pc = "verify"
    /\ \E a \in {wire.answer, late, NoAnswer} :
          /\ Receive(a, FitsExactly(late, wire.request))
          /\ \/ /\ Ok(a) /\ a.data = target
                /\ PublishVerifiedHolding(inverter, target) /\ UNCHANGED held
                /\ pc' = "slot1"
             \/ /\ Ok(a) => a.data # target
                /\ pc' = IF Ok(a) /\ verifyPoll = 0 THEN "recheck"
                         ELSE IF attempt < Retries THEN "backoff" ELSE "feed"
                /\ UNCHANGED <<cache, nextCache, historyVars>>
    /\ elapsed' = 0 /\ BatchStep
    /\ UNCHANGED <<inverter, target, attempt, verifyPoll, plexlogSlotServed>>

Slot1 == pc = "slot1" /\ ServiceOneQueued("feed")

(* The feed permission is read, and written if need be, also to switch the *)
(* feed off when the power could not be verified: waits of the thread in   *)
(* which an answer still on its way is not taken for another.              *)
FeedEnds ==
    /\ pc = "feed" /\ pc' = "slot2" /\ late' = NoAnswer
    /\ attempt' = 0 /\ verifyPoll' = 0 /\ held' = FALSE
    /\ BatchStep
    /\ UNCHANGED <<power, committing, wire, crossed, faults, cache, nextCache,
                   elapsed, inverter, target, plexlogSlotServed, since>>

Slot2 == pc = "slot2" /\ ~plexlogSlotServed /\ ServiceOneQueued("next")

Slot2Taken ==
    /\ pc = "slot2" /\ plexlogSlotServed
    /\ pc' = "next" /\ plexlogSlotServed' = FALSE
    /\ BatchStep
    /\ UNCHANGED <<busVars, cache, nextCache, elapsed, inverter, target, attempt,
                   verifyPoll, historyVars>>

Remaining == {s \in Slaves : s > inverter}

NextInverter ==
    /\ pc = "next" /\ Remaining # {}
    /\ inverter' = First(Remaining) /\ pc' = "gap"
    /\ BatchStep
    /\ UNCHANGED <<busVars, cache, nextCache, elapsed, target, attempt,
                   verifyPoll, plexlogSlotServed, historyVars>>

(* The last inverter, or superseded after any.                             *)
BatchEnds ==
    /\ pc = "next"
    /\ controlBusy' = FALSE /\ pc' = "loop"
    /\ inverter' = 0 /\ target' = "none"
    /\ UNCHANGED <<busVars, enabled, gatewayVars, ret, elapsed, attempt, verifyPoll,
                   plexlogSlotServed, plexlogVars, historyVars, boundVars>>

-----------------------------------------------------------------------------
(* pollNextEnabledInverter(), in a gap of the requests.                    *)
Poll(s) ==
    /\ pc = "loop" /\ Use
    /\ enabled => receiving = None /\ queue = <<>>
    /\ Transmit(Limit(s)) /\ Track /\ elapsed' = 0
    /\ inverter' = s /\ pc' = "poll"
    /\ UNCHANGED <<enabled, gatewayVars, ret, controlBusy, target, attempt,
                   verifyPoll, plexlogSlotServed, plexlogVars, requests>>

PollEnds ==
    /\ pc = "poll"
    /\ \E a \in {wire.answer, late, NoAnswer} :
          /\ Receive(a, FitsExactly(late, wire.request))
          /\ IF Ok(a) THEN PublishVerifiedHolding(inverter, a.data)
                      ELSE UNCHANGED <<cache, nextCache, since>>
    /\ inverter' = 0 /\ pc' = "loop" /\ UNCHANGED held
    /\ elapsed' = 0 /\ BatchStep
    /\ UNCHANGED <<target, attempt, verifyPoll, plexlogSlotServed>>

(* "plexlog on" and "plexlog off", in a phase of loop().  The cache stays. *)
Switch ==
    /\ pc = "loop" /\ Use
    /\ enabled' = ~enabled
    /\ receiving' = None /\ queue' = <<>>
    /\ UNCHANGED <<busVars, cache, nextCache, forwarding, batchVars, pc, ret,
                   elapsed, plexlogVars, historyVars, requests>>

(* Time passes in the waits, where a request that has come in is looked at *)
(* before, and in loop(), which may be held up with a request in the UART: *)
(* finishReceiving() counts its age only from when it is collected.        *)
Older(age, bound) == IF age < bound THEN age + 1 ELSE age

Timeout == IF forwarding # None THEN ForwardTimeout ELSE ResponseTimeout

Tick ==
    /\ pc = "loop" \/ (pc \in Waits /\ receiving = None)
    /\ unserved' = (unserved \/ receiving # None)
    /\ pc \in BusWait => elapsed < Timeout
    /\ elapsed' = IF pc \in BusWait THEN elapsed + 1 ELSE elapsed
    /\ queue' = [i \in DOMAIN queue |->
                    [queue[i] EXCEPT !.age = Older(@, QueueMaxAge + 1)]]
    /\ cache' = [i \in DOMAIN cache |->
                    IF cache[i] = Empty THEN Empty
                    ELSE [cache[i] EXCEPT !.age = Older(@, MaxAge)]]
    /\ IF outstanding = None \/ waited + 1 = Patience
       THEN outstanding' = None /\ waited' = 0
       ELSE waited' = waited + 1 /\ UNCHANGED outstanding
    /\ UNCHANGED <<busVars, enabled, receiving, nextCache, forwarding, batchVars,
                   pc, ret, confused, misled, historyVars, boundVars>>

TakeOver(s) ==
    /\ Commit(s) /\ Track
    /\ UNCHANGED <<wire, late, crossed, faults, enabled, gatewayVars, batchVars,
                   pc, ret, elapsed, plexlogVars, boundVars>>

-----------------------------------------------------------------------------
Gateway == ServiceForwards \/ ServiceQueue \/ ForwardEnds
Idle == Reject \/ IdleReplies \/ IdleQueues
Batch == \/ ReadBack \/ ReadBackEnds \/ Write \/ WriteEnds \/ Verify
         \/ VerifyEnds \/ Slot1 \/ FeedEnds \/ Slot2 \/ Slot2Taken
         \/ NextInverter \/ BatchEnds

Thread == Gateway \/ Idle \/ Batch \/ PollEnds

Environment == \/ \E r \in Requests \cup {Unsupported} : Send(r)
               \/ \E v \in Values : StartBatch(v)
               \/ \E s \in Slaves : Poll(s) \/ TakeOver(s)
               \/ Switch \/ Tick

Next == Thread \/ Environment

Spec == Init /\ [][Next]_vars

-----------------------------------------------------------------------------
(* Properties. *)

(* The idle callback runs in the middle of transactions and must not start *)
(* another one on the bus, nor may anything else.                          *)
OneTransactionAtATime ==
    [][wire # NoWire /\ wire' # NoWire => wire' = wire]_vars

(* An answer never comes after PlexLog has given the request up, when it   *)
(* would be taken for that of the next one, although requests wait for     *)
(* batches, retries are merged into old requests, and the bus is slow.     *)
(* Only a loop() held up by something else than the bus can break this,    *)
(* and only until the gateway has worked off what piled up.                *)
NeverALateReply == ~confused

(* Once control has verified a limit and published it, PlexLog is not told *)
(* a value from before by an answer to that request, whether it comes from *)
(* the cache, the queue or the inverter, unless a late answer was taken    *)
(* for another: that the protocol cannot tell apart.                       *)
RepliesAreCurrent == misled => crossed

(* A write reported as verified reached the register: it has held the      *)
(* target since the write began, although requests and answers get lost,   *)
(* come late, and PlexLog reads and writes in between.                     *)
VerifiedWasHeld ==
    [][(pc = "ack" \/ pc = "verify") /\ pc' = "slot1" => held]_vars
=============================================================================
