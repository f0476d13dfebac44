---------------------------- MODULE EventLogProofs ----------------------------
(***************************************************************************)
(* The rotation of the event log loses only what is older, and the log     *)
(* outgrows its capacity only by failed rotations: for every capacity,     *)
(* number of records and number of failing calls and losses of power.      *)
(***************************************************************************)
EXTENDS EventLog, TLAPS

Record == 1..MaxRecords

-----------------------------------------------------------------------------
(* Suffixes, index by index.                                               *)

EndsWith(whole, part) ==
    /\ Len(part) <= Len(whole)
    /\ \A k \in 1..Len(part) : part[k] = whole[Len(whole) - Len(part) + k]

(* The definition by reversal says the same, index by index.               *)
LEMMA SuffixByIndex ==
    ASSUME NEW S, NEW part \in Seq(S), NEW whole \in Seq(S)
    PROVE  IsSuffix(part, whole) <=> EndsWith(whole, part)
<1> DEFINE p == Reverse(part)
           w == Reverse(whole)
<1>1. /\ Len(part) \in Nat /\ Len(whole) \in Nat
      /\ \A k \in 1..Len(part) : part[k] \in S
      /\ \A k \in 1..Len(whole) : whole[k] \in S
  OBVIOUS
<1>2. /\ p \in Seq(S) /\ Len(p) = Len(part)
      /\ \A k \in 1..Len(part) : p[k] = part[Len(part) - k + 1]
  BY <1>1 DEF Reverse
<1>3. /\ w \in Seq(S) /\ Len(w) = Len(whole)
      /\ \A k \in 1..Len(whole) : w[k] = whole[Len(whole) - k + 1]
  BY <1>1 DEF Reverse
<1> HIDE DEF p, w
<1>4. ASSUME Len(part) <= Len(whole)
      PROVE  SubSeq(p, 1, Len(part)) = SubSeq(w, 1, Len(part))
                <=> \A k \in 1..Len(part) : p[k] = w[k]
  <2>1. /\ SubSeq(p, 1, Len(part)) \in Seq(S) /\ SubSeq(w, 1, Len(part)) \in Seq(S)
        /\ Len(SubSeq(p, 1, Len(part))) = Len(part)
        /\ Len(SubSeq(w, 1, Len(part))) = Len(part)
        /\ \A k \in 1..Len(part) : SubSeq(p, 1, Len(part))[k] = p[k]
        /\ \A k \in 1..Len(part) : SubSeq(w, 1, Len(part))[k] = w[k]
    BY <1>1, <1>2, <1>3, <1>4
  <2> QED
    BY <2>1
<1>5. ASSUME Len(part) <= Len(whole)
      PROVE  (\A k \in 1..Len(part) : p[k] = w[k])
                <=> \A k \in 1..Len(part) :
                        part[k] = whole[Len(whole) - Len(part) + k]
  <2>1. ASSUME \A k \in 1..Len(part) : p[k] = w[k], NEW k \in 1..Len(part)
        PROVE  part[k] = whole[Len(whole) - Len(part) + k]
    <3>1. Len(part) - k + 1 \in 1..Len(part)
      BY <1>1
    <3>2. p[Len(part) - k + 1] = part[k]
      BY <1>1, <1>2, <3>1
    <3>3. w[Len(part) - k + 1] = whole[Len(whole) - Len(part) + k]
      BY <1>1, <1>3, <1>5, <3>1
    <3> QED
      BY <2>1, <3>1, <3>2, <3>3
  <2>2. ASSUME \A k \in 1..Len(part) : part[k] = whole[Len(whole) - Len(part) + k],
               NEW k \in 1..Len(part)
        PROVE  p[k] = w[k]
    <3>1. Len(part) - k + 1 \in 1..Len(part)
      BY <1>1
    <3>2. part[Len(part) - k + 1] = whole[Len(whole) - k + 1]
      BY <1>1, <1>5, <2>2, <3>1
    <3> QED
      BY <1>1, <1>2, <1>3, <1>5, <3>2
  <2> QED
    BY <2>1, <2>2
<1>6. IsSuffix(part, whole) <=>
          /\ Len(part) <= Len(whole)
          /\ SubSeq(p, 1, Len(part)) = SubSeq(w, 1, Len(part))
  BY <1>2, <1>3 DEF IsSuffix, IsPrefix, p, w
<1> QED
  BY <1>4, <1>5, <1>6 DEF EndsWith

(* One more record at both ends.                                           *)
LEMMA SuffixGrows ==
    ASSUME NEW S, NEW part \in Seq(S), NEW whole \in Seq(S), NEW r \in S,
           EndsWith(whole, part)
    PROVE  EndsWith(Append(whole, r), Append(part, r))
<1> DEFINE p == Append(part, r)
           w == Append(whole, r)
<1>1. /\ Len(part) \in Nat /\ Len(whole) \in Nat /\ Len(part) <= Len(whole)
      /\ Len(p) = Len(part) + 1 /\ Len(w) = Len(whole) + 1
      /\ \A k \in 1..Len(part) : p[k] = part[k]
      /\ \A k \in 1..Len(whole) : w[k] = whole[k]
      /\ p[Len(part) + 1] = r /\ w[Len(whole) + 1] = r
  BY DEF EndsWith
<1> HIDE DEF p, w
<1>2. ASSUME NEW k \in 1..Len(p) PROVE p[k] = w[Len(w) - Len(p) + k]
  <2>1. CASE k = Len(part) + 1
    BY <1>1, <2>1
  <2>2. CASE k \in 1..Len(part)
    <3>1. /\ Len(whole) - Len(part) + k \in 1..Len(whole)
          /\ Len(w) - Len(p) + k = Len(whole) - Len(part) + k
      BY <1>1, <2>2
    <3>2. part[k] = whole[Len(whole) - Len(part) + k]
      BY <2>2 DEF EndsWith
    <3> QED
      BY <1>1, <2>2, <3>1, <3>2
  <2> QED
    BY <1>1, <2>1, <2>2
<1>3. EndsWith(w, p)
  BY <1>1, <1>2 DEF EndsWith
<1> QED
  BY <1>3 DEF p, w

LEMMA AppendLast ==
    ASSUME NEW S, NEW first \in Seq(S), NEW rest \in Seq(S), NEW r \in S
    PROVE  first \o Append(rest, r) = Append(first \o rest, r)
<1> DEFINE one == first \o Append(rest, r)
           two == Append(first \o rest, r)
<1>1. /\ Len(first) \in Nat /\ Len(rest) \in Nat
      /\ one \in Seq(S) /\ two \in Seq(S)
      /\ Len(one) = Len(first) + Len(rest) + 1
      /\ Len(two) = Len(first) + Len(rest) + 1
  OBVIOUS
<1>2. ASSUME NEW k \in 1..Len(one) PROVE one[k] = two[k]
  <2>1. CASE k <= Len(first)
    BY <1>1, <2>1
  <2>2. CASE k > Len(first) /\ k <= Len(first) + Len(rest)
    BY <1>1, <2>2
  <2>3. CASE k = Len(first) + Len(rest) + 1
    BY <1>1, <2>3
  <2> QED
    BY <1>1, <2>1, <2>2, <2>3
<1> HIDE DEF one, two
<1>3. one = two
  BY <1>1, <1>2
<1> QED
  BY <1>3 DEF one, two

(* What follows the first part of a suffix is a suffix.                    *)
LEMMA SuffixShrinks ==
    ASSUME NEW S, NEW first \in Seq(S), NEW rest \in Seq(S), NEW whole \in Seq(S),
           EndsWith(whole, first \o rest)
    PROVE  EndsWith(whole, rest)
<1> DEFINE both == first \o rest
<1>1. /\ Len(first) \in Nat /\ Len(rest) \in Nat /\ Len(whole) \in Nat
      /\ Len(both) = Len(first) + Len(rest) /\ Len(both) <= Len(whole)
      /\ \A k \in 1..Len(rest) : both[Len(first) + k] = rest[k]
  BY DEF EndsWith
<1>2. \A k \in 1..Len(both) : both[k] = whole[Len(whole) - Len(both) + k]
  BY DEF EndsWith
<1> HIDE DEF both
<1>3. ASSUME NEW k \in 1..Len(rest) PROVE rest[k] = whole[Len(whole) - Len(rest) + k]
  <2>1. /\ Len(first) + k \in 1..Len(both)
        /\ Len(whole) - Len(both) + (Len(first) + k) = Len(whole) - Len(rest) + k
    BY <1>1
  <2>2. both[Len(first) + k] = whole[Len(whole) - Len(both) + (Len(first) + k)]
    BY <1>2, <2>1
  <2> QED
    BY <1>1, <2>1, <2>2
<1> QED
  BY <1>1, <1>3 DEF EndsWith

-----------------------------------------------------------------------------
(* The inductive invariant.                                                *)

Appending == {"remove", "rename", "create", "reopen", "write"}
Used == MaxFaults - faults      \* the failures that have happened

(* Where append() is says what it has found so far.                        *)
StageInv ==
    /\ call \in Appending => available /\ next >= 2
    /\ call \in {"remove", "rename"} => Capacity <= Len(log)
    /\ call = "create" => log = Absent

NewestInv ==
    /\ EndsWith(written, OnCard)
    /\ Capacity <= Len(OnCard) \/ OnCard = written

(* Whoever has to be written into a full file has a failure to show.       *)
GrowthInv ==
    /\ Len(Records(log)) <= Capacity + Used
    /\ call \in {"reopen", "write"} \/ (call = "rename" /\ old # Absent)
          => Len(Records(log)) < Capacity + Used

LogInv == LogTypeOK /\ StageInv /\ NewestInv /\ GrowthInv

LEMMA FileTypes ==
    ASSUME LogTypeOK
    PROVE  /\ Records(log) \in Seq(Record) /\ Records(old) \in Seq(Record)
           /\ OnCard \in Seq(Record) /\ written \in Seq(Record)
           /\ Len(OnCard) = Len(Records(old)) + Len(Records(log))
           /\ Len(Records(log)) \in Nat /\ Len(Records(old)) \in Nat
           /\ Used \in Nat /\ faults \in Nat /\ next \in 1..(MaxRecords + 1)
           /\ Capacity \in Nat \ {0} /\ MaxFaults \in Nat /\ MaxRecords \in Nat
<1>1. Capacity \in Nat \ {0} /\ MaxFaults \in Nat /\ MaxRecords \in Nat
  BY LogAssumption
<1>2. Records(log) \in Seq(Record) /\ Records(old) \in Seq(Record)
  <2>1. <<>> \in Seq(Record)
    OBVIOUS
  <2>2. \A file \in File : file = Absent \/ file \in Seq(Record)
    BY DEF File, Record
  <2> QED
    BY <2>1, <2>2 DEF LogTypeOK, Records
<1> QED
  BY <1>1, <1>2 DEF LogTypeOK, Used, Record, OnCard

LEMMA FaultUses ==
    ASSUME LogTypeOK, Fault
    PROVE  Used' = Used + 1 /\ faults' \in 0..MaxFaults
  BY LogAssumption DEF LogTypeOK, Fault, Used

(* Calls that leave the files and what was written alone.                  *)
LEMMA FilesStay ==
    ASSUME NewestInv, UNCHANGED <<log, old, written>> PROVE NewestInv'
  BY DEF NewestInv, OnCard, Records

LEMMA LogStart == LogInit => LogInv
<1> SUFFICES ASSUME LogInit PROVE LogInv
  OBVIOUS
<1>1. Capacity \in Nat \ {0} /\ MaxFaults \in Nat /\ MaxRecords \in Nat
  BY LogAssumption
<1>2. LogTypeOK
  <2>1. log \in File /\ old \in File /\ written \in Seq(1..MaxRecords)
    <3>1. Absent \in File
      BY DEF File
    <3>2. \A seq : seq = <<>> => seq \in Seq(1..MaxRecords)
      OBVIOUS
    <3> QED
      BY <3>1, <3>2 DEF LogInit
  <2>2. next \in 1..(MaxRecords + 1) /\ faults \in 0..MaxFaults
    BY <1>1 DEF LogInit
  <2> QED
    BY <2>1, <2>2 DEF LogInit, LogTypeOK
<1>3. StageInv
  BY DEF LogInit, StageInv, Appending
<1>4. OnCard = <<>> /\ Records(log) = <<>> /\ Used = 0
  BY <1>1 DEF LogInit, OnCard, Records, Used
<1>5. NewestInv
  BY <1>4 DEF LogInit, NewestInv, EndsWith
<1>6. GrowthInv
  BY <1>1, <1>4 DEF LogInit, GrowthInv
<1> QED
  BY <1>2, <1>3, <1>5, <1>6 DEF LogInv

(* append() begins, or the card is found or missing.                       *)
LEMMA OpeningStep == ASSUME LogInv, Begin \/ Open \/ Unavailable PROVE LogInv'
<1> USE DEF LogInv
<1>1. CASE Begin
  <2>1. /\ call' = "idle" /\ UNCHANGED <<old, next, written>>
        /\ \/ available' = TRUE /\ UNCHANGED faults
              /\ log' = IF log = Absent THEN <<>> ELSE log
           \/ available' = FALSE /\ Fault /\ UNCHANGED log
    BY <1>1 DEF Begin
  <2>2. Records(log)' = Records(log) /\ Records(old)' = Records(old)
    BY <2>1 DEF Records
  <2>3. Used' \in {Used, Used + 1} /\ faults' \in 0..MaxFaults
    BY <2>1, FaultUses DEF Used, LogTypeOK
  <2>4. LogTypeOK'
    <3>1. <<>> \in File /\ <<>> # Absent
      <4>1. <<>> \in Seq(1..MaxRecords)
        OBVIOUS
      <4>2. <<>> # Absent
        BY DEF Absent
      <4> QED
        BY <4>1, <4>2 DEF File
    <3>2. log' \in File /\ (available' => log' # Absent)
      BY <2>1, <3>1 DEF LogTypeOK
    <3> QED
      BY <2>1, <2>3, <3>2 DEF LogTypeOK
  <2>5. StageInv' /\ GrowthInv'
    BY <2>1, <2>2, <2>3, FileTypes DEF StageInv, GrowthInv, Appending
  <2>6. NewestInv'
    BY <2>1, <2>2 DEF NewestInv, OnCard
  <2> QED
    BY <2>4, <2>5, <2>6
<1>2. CASE Open
  <2>1. /\ call = "idle" /\ available /\ next <= MaxRecords /\ next' = next + 1
        /\ UNCHANGED <<log, old, written>>
        /\ \/ /\ call' = IF IsFull(log) THEN "remove" ELSE "write"
              /\ UNCHANGED <<available, faults>>
           \/ Fault /\ available' = FALSE /\ UNCHANGED call
    BY <1>2 DEF Open
  <2>2. Used' \in {Used, Used + 1} /\ faults' \in 0..MaxFaults
    BY <2>1, FaultUses DEF Used, LogTypeOK
  <2>3. next' \in 2..(MaxRecords + 1) /\ log # Absent
    BY <2>1, FileTypes DEF LogTypeOK
  <2>a. /\ next' \in 1..(MaxRecords + 1) /\ next' >= 2
        /\ Records(log) = log /\ Len(log) \in Nat /\ Capacity \in Nat /\ Used \in Nat
    BY <2>3, FileTypes DEF Records
  <2>4. LogTypeOK'
    BY <2>1, <2>2, <2>a DEF LogTypeOK
  <2>b. /\ call' \in {"remove", "write", "idle"}
        /\ call' # "idle" => available'
        /\ call' = "remove" => Capacity <= Len(log)
        /\ call' = "write" => Len(log) < Capacity
    <3>1. CASE UNCHANGED call
      BY <2>1, <3>1
    <3>2. CASE IsFull(log) /\ call' = "remove" /\ UNCHANGED available
      BY <2>1, <2>a, <3>2 DEF IsFull
    <3>3. CASE ~IsFull(log) /\ call' = "write" /\ UNCHANGED available
      BY <2>1, <2>a, <3>3 DEF IsFull
    <3> QED
      BY <2>1, <3>1, <3>2, <3>3
  <2>5. StageInv'
    BY <2>1, <2>a, <2>b DEF StageInv, Appending
  <2>6. GrowthInv'
    <3>1. Records(log)' = log /\ Len(log) <= Capacity + Used
      BY <2>1, <2>3, <2>a DEF Records, GrowthInv
    <3>2. /\ Len(log) <= Capacity + Used'
          /\ call' = "write" => Len(log) < Capacity + Used'
      BY <2>2, <2>a, <2>b, <3>1
    <3> QED
      BY <2>b, <3>1, <3>2 DEF GrowthInv
  <2> QED
    BY <2>1, <2>4, <2>5, <2>6, FilesStay
<1>3. CASE Unavailable
  <2>1. /\ call = "idle" /\ ~available /\ next <= MaxRecords /\ next' = next + 1
        /\ UNCHANGED <<log, old, available, call, written, faults>>
    BY <1>3 DEF Unavailable
  <2>2. LogTypeOK'
    BY <2>1, FileTypes DEF LogTypeOK
  <2>3. StageInv' /\ GrowthInv'
    BY <2>1 DEF StageInv, Appending, GrowthInv, Records, Used
  <2> QED
    BY <2>1, <2>2, <2>3, FilesStay
<1> QED
  BY <1>1, <1>2, <1>3

(* The rotation of a full file.                                            *)
LEMMA RotationStep ==
    ASSUME LogInv, RemoveOld \/ Rename \/ Create \/ Reopen PROVE LogInv'
<1> USE DEF LogInv
<1>a. Absent \in File
  BY DEF File
<1>1. CASE RemoveOld
  <2>1. /\ call = "remove" /\ call' = "rename"
        /\ \/ old' = Absent /\ UNCHANGED faults
           \/ Fault /\ UNCHANGED old
        /\ UNCHANGED <<log, available, next, written>>
    BY <1>1 DEF RemoveOld
  <2>2. /\ log # Absent /\ Records(log) = log /\ Capacity <= Len(log)
        /\ available /\ Records(log)' = Records(log)
    BY <2>1 DEF LogTypeOK, StageInv, Appending, Records
  <2>3. /\ faults' \in 0..MaxFaults
        /\ Used' \in {Used, Used + 1}
    BY <2>1, FaultUses DEF Used, LogTypeOK
  <2>4. LogTypeOK'
    BY <2>1, <2>2, <2>3, <1>a DEF LogTypeOK
  <2>5. StageInv'
    BY <2>1, <2>2 DEF StageInv, Appending
  <2>6. NewestInv'
    <3>1. CASE UNCHANGED old
      BY <2>1, <3>1, FilesStay
    <3>2. CASE old' = Absent
      <4>1. EndsWith(written, Records(log))
        BY FileTypes, SuffixShrinks DEF NewestInv, OnCard
      <4>2. Records(old)' = <<>>
        BY <3>2 DEF Records
      <4>3. OnCard' = Records(log)
        BY <2>2, <4>2, FileTypes DEF OnCard
      <4> QED
        BY <2>1, <2>2, <4>1, <4>3 DEF NewestInv
    <3> QED
      BY <2>1, <3>1, <3>2
  <2>7. GrowthInv'
    <3>1. Len(Records(log)) <= Capacity + Used
      BY DEF GrowthInv
    <3>2. Len(Records(log)') = Len(Records(log)) /\ call' = "rename"
      BY <2>1, <2>2
    <3>3. CASE old' = Absent
      BY <2>3, <3>1, <3>2, <3>3, FileTypes DEF GrowthInv
    <3>4. CASE Used' = Used + 1
      BY <2>3, <3>1, <3>2, <3>4, FileTypes DEF GrowthInv
    <3>5. old' = Absent \/ Used' = Used + 1
      BY <2>1, FaultUses
    <3> QED
      BY <3>3, <3>4, <3>5
  <2> QED
    BY <2>4, <2>5, <2>6, <2>7
<1>2. CASE Rename
  <2>1. /\ call = "rename" /\ available /\ log # Absent /\ next >= 2
        /\ UNCHANGED <<available, next, written>>
    BY <1>2 DEF Rename, LogTypeOK, StageInv, Appending
  <2>2. CASE old = Absent /\ old' = log /\ log' = Absent /\ call' = "create"
             /\ UNCHANGED faults
    <3>1. LogTypeOK'
      BY <2>1, <2>2, <1>a DEF LogTypeOK
    <3>2. StageInv'
      BY <2>1, <2>2 DEF StageInv, Appending
    <3>3. /\ Records(old) = <<>> /\ Records(log) = log
          /\ Records(old)' = log /\ Records(log)' = <<>>
      BY <2>1, <2>2 DEF Records
    <3>4. OnCard' = OnCard
      <4>1. log \in Seq(Record)
        BY <3>3, FileTypes
      <4> QED
        BY <3>3, <4>1 DEF OnCard
    <3>5. NewestInv'
      BY <2>1, <3>4 DEF NewestInv
    <3>6. GrowthInv'
      BY <2>2, <3>3, FileTypes DEF GrowthInv, Used
    <3> QED
      BY <3>1, <3>2, <3>5, <3>6
  <2>3. CASE /\ IF old = Absent THEN Fault ELSE UNCHANGED faults
             /\ call' = "reopen" /\ UNCHANGED <<log, old>>
    <3>1. /\ faults' \in 0..MaxFaults
          /\ IF old = Absent THEN Used' = Used + 1 ELSE Used' = Used
      BY <2>3, FaultUses DEF Used, LogTypeOK
    <3>2. LogTypeOK'
      BY <2>1, <2>3, <3>1 DEF LogTypeOK
    <3>3. StageInv'
      BY <2>1, <2>3 DEF StageInv, Appending
    <3>4. NewestInv'
      BY <2>1, <2>3, FilesStay
    <3>5. GrowthInv'
      <4>1. Records(log)' = Records(log)
        BY <2>3 DEF Records
      <4>2. CASE old = Absent
        BY <2>1, <3>1, <4>1, <4>2, FileTypes DEF GrowthInv
      <4>3. CASE old # Absent
        BY <2>1, <3>1, <4>1, <4>3, FileTypes DEF GrowthInv
      <4> QED
        BY <4>2, <4>3
    <3> QED
      BY <3>2, <3>3, <3>4, <3>5
  <2> QED
    BY <1>2, <2>2, <2>3 DEF Rename
<1>3. CASE Create
  <2>1. /\ call = "create" /\ log = Absent /\ available /\ next >= 2
        /\ UNCHANGED <<old, next, written>>
        /\ \/ log' = <<>> /\ call' = "reopen" /\ UNCHANGED <<available, faults>>
           \/ Fault /\ available' = FALSE /\ call' = "idle" /\ UNCHANGED log
    BY <1>3 DEF Create, StageInv, Appending
  <2>2. faults' \in 0..MaxFaults /\ Used' \in {Used, Used + 1}
    BY <2>1, FaultUses DEF Used, LogTypeOK
  <2>3. /\ Records(log) = <<>> /\ Records(log)' = <<>> /\ Records(old)' = Records(old)
    BY <2>1 DEF Records
  <2>4. LogTypeOK'
    <3>1. <<>> \in File /\ <<>> # Absent
      <4>1. <<>> \in Seq(1..MaxRecords)
        OBVIOUS
      <4>2. <<>> # Absent
        BY DEF Absent
      <4> QED
        BY <4>1, <4>2 DEF File
    <3>2. log' \in File /\ (available' => log' # Absent)
      BY <2>1, <3>1 DEF LogTypeOK
    <3> QED
      BY <2>1, <2>2, <3>2 DEF LogTypeOK
  <2>5. StageInv'
    BY <2>1 DEF StageInv, Appending
  <2>6. NewestInv'
    BY <2>1, <2>3 DEF NewestInv, OnCard
  <2>7. GrowthInv'
    BY <2>1, <2>2, <2>3, FileTypes DEF GrowthInv
  <2> QED
    BY <2>4, <2>5, <2>6, <2>7
<1>4. CASE Reopen
  <2>1. /\ call = "reopen" /\ available /\ next >= 2 /\ log # Absent
        /\ UNCHANGED <<log, old, next, written>>
        /\ \/ call' = "write" /\ UNCHANGED <<available, faults>>
           \/ Fault /\ available' = FALSE /\ call' = "idle"
    BY <1>4 DEF Reopen, LogTypeOK, StageInv, Appending
  <2>2. faults' \in 0..MaxFaults /\ Used' \in {Used, Used + 1}
    BY <2>1, FaultUses DEF Used, LogTypeOK
  <2>3. LogTypeOK'
    BY <2>1, <2>2 DEF LogTypeOK
  <2>4. StageInv'
    BY <2>1 DEF StageInv, Appending
  <2>5. GrowthInv'
    BY <2>1, <2>2, FileTypes DEF GrowthInv, Records
  <2> QED
    BY <2>1, <2>3, <2>4, <2>5, FilesStay
<1> QED
  BY <1>1, <1>2, <1>3, <1>4

(* A record is written, or power is lost.                                  *)
LEMMA ClosingStep == ASSUME LogInv, Write \/ PowerLoss PROVE LogInv'
<1> USE DEF LogInv
<1>1. CASE Write
  <2>1. /\ call = "write" /\ call' = "idle" /\ available /\ next >= 2 /\ log # Absent
        /\ UNCHANGED <<old, available, next>>
    BY <1>1 DEF Write, LogTypeOK, StageInv, Appending
  <2>2. CASE log' = Append(log, next - 1) /\ written' = Append(written, next - 1)
             /\ UNCHANGED faults
    <3>1. /\ next - 1 \in Record /\ Records(log) = log /\ log \in Seq(Record)
          /\ written \in Seq(Record)
      BY <2>1, FileTypes DEF Record, Records
    <3>2. log' \in Seq(Record) /\ written' \in Seq(Record) /\ Len(log') = Len(log) + 1
      BY <2>2, <3>1
    <3>3. log' # Absent
      <4>1. \A k \in 1..Len(log') : log'[k] \in Record
        BY <3>2
      <4> QED
        BY <4>1 DEF Absent, Record
    <3>4. Records(log)' = Append(Records(log), next - 1) /\ Records(old)' = Records(old)
      BY <2>1, <2>2, <3>1, <3>3 DEF Records
    <3>5. LogTypeOK'
      BY <2>1, <2>2, <3>2, <3>3 DEF LogTypeOK, File, Record
    <3>6. StageInv'
      BY <2>1 DEF StageInv, Appending
    <3>7. OnCard' = Append(OnCard, next - 1)
      BY <3>1, <3>4, FileTypes, AppendLast DEF OnCard
    <3>8. NewestInv'
      <4>1. EndsWith(written', OnCard')
        BY <2>2, <3>1, <3>7, FileTypes, SuffixGrows DEF NewestInv
      <4>2. Len(OnCard') = Len(OnCard) + 1
        BY <3>1, <3>7, FileTypes
      <4>3. Capacity <= Len(OnCard') \/ OnCard' = written'
        BY <2>2, <3>7, <4>2, FileTypes DEF NewestInv
      <4> QED
        BY <4>1, <4>3 DEF NewestInv
    <3>9. GrowthInv'
      <4>1. Len(Records(log)') = Len(Records(log)) + 1
        BY <3>1, <3>2, <3>4
      <4>2. Used' = Used
        BY <2>2 DEF Used
      <4> QED
        BY <2>1, <4>1, <4>2, FileTypes DEF GrowthInv
    <3> QED
      BY <3>5, <3>6, <3>8, <3>9
  <2>3. CASE Fault /\ UNCHANGED <<log, written>>
    <3>1. LogTypeOK'
      BY <2>1, <2>3, FaultUses DEF LogTypeOK
    <3>2. StageInv'
      BY <2>1 DEF StageInv, Appending
    <3>3. GrowthInv'
      BY <2>1, <2>3, FaultUses, FileTypes DEF GrowthInv, Records
    <3> QED
      BY <2>1, <2>3, <3>1, <3>2, <3>3, FilesStay
  <2> QED
    BY <1>1, <2>2, <2>3 DEF Write
<1>2. CASE PowerLoss
  <2>1. /\ call' = "off" /\ available' = FALSE /\ Fault
        /\ UNCHANGED <<log, old, next, written>>
    BY <1>2 DEF PowerLoss
  <2>2. LogTypeOK'
    BY <2>1, FaultUses DEF LogTypeOK
  <2>3. StageInv'
    BY <2>1 DEF StageInv, Appending
  <2>4. GrowthInv'
    BY <2>1, FaultUses, FileTypes DEF GrowthInv, Records
  <2> QED
    BY <2>1, <2>2, <2>3, <2>4, FilesStay
<1> QED
  BY <1>1, <1>2

LEMMA LogInvariance == LogSpec => []LogInv
<1>1. LogInv /\ UNCHANGED logVars => LogInv'
  <2> SUFFICES ASSUME LogInv, UNCHANGED logVars PROVE LogInv'
    OBVIOUS
  <2>1. LogTypeOK' /\ StageInv'
    BY DEF logVars, LogInv, LogTypeOK, StageInv
  <2>2. NewestInv'
    BY FilesStay DEF logVars, LogInv
  <2>3. GrowthInv'
    BY DEF logVars, LogInv, GrowthInv, Records, Used
  <2> QED
    BY <2>1, <2>2, <2>3 DEF LogInv
<1>2. LogInv /\ [LogNext]_logVars => LogInv'
  BY <1>1, OpeningStep, RotationStep, ClosingStep DEF LogNext, Done
<1> QED
  BY <1>2, LogStart, PTL DEF LogSpec

-----------------------------------------------------------------------------
(* What follows. *)

(* Every reachable state is well typed; a log in use has a file to append  *)
(* to, whichever call of its rotation failed (EventLog.cpp 53-83).         *)
THEOREM LogIsWellTyped == LogSpec => []LogTypeOK
<1>1. LogInv => LogTypeOK
  BY DEF LogInv
<1> QED
  BY <1>1, LogInvariance, PTL

(* The two files always hold the newest records the card has taken, in     *)
(* order and without a gap, and a full file of them if there were as many. *)
THEOREM KeepsLatestAlways == LogSpec => []KeepsLatest
<1>1. ASSUME LogInv PROVE KeepsLatest
  <2>1. IsSuffix(OnCard, written)
    BY <1>1, FileTypes, SuffixByIndex DEF LogInv, NewestInv
  <2>2. Len(OnCard) >= Capacity \/ OnCard = written
    BY <1>1, FileTypes DEF LogInv, NewestInv
  <2> QED
    BY <2>1, <2>2 DEF KeepsLatest
<1> QED
  BY <1>1, LogInvariance, PTL

(* The log outgrows its capacity by at most one record for each failure.   *)
THEOREM GrowthIsExcusedAlways == LogSpec => []GrowthIsExcused
<1>1. ASSUME LogInv PROVE GrowthIsExcused
  BY <1>1, FileTypes DEF LogInv, GrowthInv, GrowthIsExcused, Used
<1> QED
  BY <1>1, LogInvariance, PTL
=============================================================================
