-------------------------- MODULE TimestampsProofs --------------------------
(***************************************************************************)
(* Proofs about Timestamps, for every number of validators and blocks and  *)
(* every width of the integers.                                            *)
(*                                                                         *)
(* No property is inductive by itself: what a proposer asks for depends on *)
(* its record of the parent, which must be the one its header stands for,  *)
(* and on milliseconds that did not saturate.                              *)
(***************************************************************************)
EXTENDS Timestamps, TLAPS

(* The milliseconds of every header fit a u64. *)
FitsInv == \A b \in Index : time[b] * PerSecond <= U64Max

(* A record is that of the block's header, whoever made it. *)
RecordsInv ==
    \A n \in Nodes, b \in Index :
        info[n][b] # None => b <= height /\ info[n][b] = RecordOf(time[b])

TimesInv == TypeOK /\ FitsInv /\ RecordsInv /\ TimesFollowClocks

-----------------------------------------------------------------------------
(* Division *)

(* What a quotient is. *)
LEMMA DivBounds ==
    ASSUME NEW a \in Nat, NEW p \in Nat \ {0}
    PROVE  /\ a \div p \in Nat
           /\ (a \div p) * p <= a
           /\ a < (a \div p) * p + p
OBVIOUS

(* A number whose multiple fits is at most the quotient. *)
LEMMA DivAtLeast ==
    ASSUME NEW a \in Nat, NEW p \in Nat \ {0}, NEW q \in Nat, q * p <= a
    PROVE  q <= a \div p
<1> DEFINE d == a \div p
<1>1. d \in Nat /\ a < d * p + p
  BY DivBounds
<1> HIDE DEF d
<1>2. q <= d
  <2> SUFFICES ASSUME q >= d + 1 PROVE FALSE
    BY <1>1
  <2>1. q * p >= (d + 1) * p
    BY <1>1
  <2>2. (d + 1) * p = d * p + p
    BY <1>1
  <2>3. q * p \in Nat /\ d * p \in Nat /\ (d + 1) * p \in Nat
    BY <1>1
  <2> QED
    BY <1>1, <2>1, <2>2, <2>3
<1> QED
  BY <1>2 DEF d

(* A number whose next multiple does not fit is at least the quotient. *)
LEMMA DivBelow ==
    ASSUME NEW a \in Nat, NEW p \in Nat \ {0}, NEW q \in Nat, a < q * p + p
    PROVE  a \div p <= q
<1> DEFINE d == a \div p
<1>1. d \in Nat /\ d * p <= a
  BY DivBounds
<1> HIDE DEF d
<1>2. d <= q
  <2> SUFFICES ASSUME d >= q + 1 PROVE FALSE
    BY <1>1
  <2>1. d * p >= (q + 1) * p
    BY <1>1
  <2>2. (q + 1) * p = q * p + p
    OBVIOUS
  <2>3. q * p \in Nat /\ d * p \in Nat /\ (q + 1) * p \in Nat
    BY <1>1
  <2> QED
    BY <1>1, <2>1, <2>2, <2>3
<1> QED
  BY <1>2 DEF d

-----------------------------------------------------------------------------
(* Records and proposals *)

(* A record whose milliseconds fit keeps them, and passes the check of     *)
(* handle_verify.                                                          *)
LEMMA RecordFits ==
    ASSUME NEW t \in U64, t * PerSecond <= U64Max
    PROVE  /\ RecordOf(t) \in Records
           /\ RecordOf(t).time = t /\ RecordOf(t).millis = t * PerSecond
           /\ MillisAgree(RecordOf(t))
<1>1. t \in Nat /\ PerSecond \in Nat \ {0} /\ U64Max \in Nat /\ t * PerSecond \in Nat
  BY TimestampsAssumption DEF U64
<1>2. RecordOf(t) = [time |-> t, millis |-> t * PerSecond]
  BY <1>1 DEF RecordOf, SaturatingMul
<1>3. t * PerSecond \in U64
  BY <1>1 DEF U64
<1>4. (t * PerSecond) \div PerSecond = t
  <2>1. (t * PerSecond) \div PerSecond \in Nat
    BY <1>1, DivBounds
  <2>2. t <= (t * PerSecond) \div PerSecond
    BY <1>1, DivAtLeast
  <2>3. (t * PerSecond) \div PerSecond <= t
    BY <1>1, DivBelow
  <2> QED
    BY <1>1, <2>1, <2>2, <2>3
<1> QED
  BY <1>2, <1>3, <1>4 DEF Records, MillisAgree

(* The seconds of a proposal: they fit, are not before the parent's, and   *)
(* are the parent's or the clock's.                                        *)
LEMMA ProposalTime ==
    ASSUME NEW t \in U64, t * PerSecond <= U64Max, NEW now \in U64, NEW s,
           s = ProposedMillis(RecordOf(t), now) \div PerSecond
    PROVE  /\ s \in U64 /\ s * PerSecond <= U64Max
           /\ t <= s
           /\ s = t \/ s = now \div PerSecond
<1> DEFINE m == t * PerSecond
           past == IF m + 1 > U64Max THEN U64Max ELSE m + 1
           millis == IF now > past THEN now ELSE past
<1>1. /\ t \in Nat /\ m \in Nat /\ m <= U64Max /\ now \in Nat /\ now <= U64Max
      /\ PerSecond \in Nat \ {0} /\ PerSecond > 1 /\ U64Max \in Nat
  BY TimestampsAssumption DEF U64
<1>2. s = millis \div PerSecond
  BY RecordFits DEF ProposedMillis, SaturatingAdd
<1> HIDE DEF m
<1>3. /\ past \in Nat /\ m <= past /\ past <= U64Max /\ past < m + PerSecond
      /\ millis \in Nat /\ m <= millis /\ millis <= U64Max
      /\ millis = now \/ millis = past
  BY <1>1
<1> HIDE DEF past, millis
<1>4. /\ s \in Nat /\ s * PerSecond <= millis /\ s * PerSecond \in Nat
  BY <1>1, <1>2, <1>3, DivBounds
<1>5. s <= s * PerSecond
  BY <1>1, <1>4
<1>6. t <= s
  BY <1>1, <1>2, <1>3, DivAtLeast DEF m
<1>7. CASE millis = now
  BY <1>1, <1>2, <1>3, <1>4, <1>5, <1>6, <1>7 DEF U64
<1>8. CASE millis = past
  <2>1. s <= t
    BY <1>1, <1>2, <1>3, <1>8, DivBelow DEF m
  <2> QED
    BY <1>1, <1>3, <1>4, <1>5, <1>6, <2>1 DEF U64
<1> QED
  BY <1>3, <1>7, <1>8

-----------------------------------------------------------------------------
(* The invariant *)

(* Genesis fits, and every node records it. *)
LEMMA TimesInit == Init => TimesInv
<1> SUFFICES ASSUME Init PROVE TimesInv
  OBVIOUS
<1>1. /\ PerSecond \in Nat \ {0} /\ U64Max \in Nat /\ MaxBlocks \in Nat
      /\ 0 \in Index /\ 0 \in U64
  BY TimestampsAssumption DEF Index, U64
<1>2. PICK t \in 0..(U64Max \div PerSecond) :
         /\ time = [b \in Index |-> t]
         /\ info = [n \in Nodes |-> [b \in Index |->
                      IF b = 0 THEN RecordOf(t) ELSE None]]
  BY DEF Init
<1>3. t \in Nat /\ t * PerSecond \in Nat /\ t * PerSecond <= U64Max /\ t \in U64
  <2> DEFINE q == U64Max \div PerSecond
  <2>1. q \in Nat /\ q * PerSecond <= U64Max
    BY <1>1, DivBounds
  <2>2. t \in Nat /\ t <= q
    BY <2>1
  <2> HIDE DEF q
  <2>3. t * PerSecond <= q * PerSecond /\ t <= t * PerSecond
    BY <1>1, <2>1, <2>2
  <2>4. t * PerSecond \in Nat /\ q * PerSecond \in Nat
    BY <1>1, <2>1, <2>2
  <2> QED
    BY <1>1, <2>1, <2>2, <2>3, <2>4 DEF U64
<1>4. TypeOK
  <2>1. RecordOf(t) \in Records
    BY <1>3, RecordFits
  <2> QED
    BY <1>1, <1>2, <1>3, <2>1 DEF Init, TypeOK
<1>5. FitsInv
  BY <1>2, <1>3 DEF FitsInv
<1>6. RecordsInv
  BY <1>1, <1>2 DEF Init, RecordsInv
<1>7. TimesFollowClocks
  BY DEF Init, TimesFollowClocks
<1> QED
  BY <1>4, <1>5, <1>6, <1>7 DEF TimesInv

(* A proposal. *)
LEMMA ProposeTimes ==
    ASSUME TimesInv, NEW n \in Nodes, NEW p \in Index, NEW now \in U64,
           Propose(n, p, now)
    PROVE  TimesInv'
<1> DEFINE s == ProposedMillis(info[n][p], now) \div PerSecond
           w == height + 1
<1>1. /\ info[n][p] # None /\ height < MaxBlocks
      /\ time' = [time EXCEPT ![w] = s]
      /\ info' = [info EXCEPT ![n][w] = RecordOf(s)]
      /\ height' = w /\ parent' = [parent EXCEPT ![w] = p]
      /\ latest' = IF now > latest THEN now ELSE latest
  BY DEF Propose, ProposerRecord
<1>2. /\ time[p] \in U64 /\ time[p] * PerSecond <= U64Max /\ p <= height
      /\ info[n][p] = RecordOf(time[p])
  BY <1>1 DEF TimesInv, TypeOK, FitsInv, RecordsInv
<1>3. /\ s \in U64 /\ s * PerSecond <= U64Max
      /\ s = time[p] \/ s = now \div PerSecond
  BY <1>2, ProposalTime
<1> HIDE DEF s
<1>4. /\ height \in Nat /\ MaxBlocks \in Nat /\ w \in Index /\ w # 0 /\ w > height
      /\ p \in Nat /\ PerSecond \in Nat \ {0} /\ 0 \in Index
  BY <1>1, TimestampsAssumption DEF TimesInv, TypeOK, Index
<1>5. latest' \in U64 /\ latest <= latest' /\ now <= latest' /\ latest \in U64
  BY <1>1, TimestampsAssumption DEF TimesInv, TypeOK, U64
<1>6. /\ time \in [Index -> U64] /\ parent \in [Index -> Index]
      /\ info \in [Nodes -> [Index -> Records \cup {None}]]
  BY DEF TimesInv, TypeOK
<1>7. /\ time'[w] = s /\ \A b \in Index \ {w} : time'[b] = time[b]
      /\ \A m \in Nodes, b \in Index :
            info'[m][b] = IF m = n /\ b = w THEN RecordOf(s) ELSE info[m][b]
  BY <1>1, <1>4, <1>6
<1>8. TypeOK'
  <2>1. RecordOf(s) \in Records
    BY <1>3, RecordFits
  <2> QED
    BY <1>1, <1>3, <1>4, <1>5, <1>6, <2>1 DEF TypeOK
<1>9. FitsInv'
  BY <1>3, <1>7 DEF TimesInv, FitsInv
<1>10. RecordsInv'
  <2> SUFFICES ASSUME NEW m \in Nodes, NEW b \in Index, info'[m][b] # None
               PROVE  b <= height' /\ info'[m][b] = RecordOf(time'[b])
    BY DEF RecordsInv, RecordOf, SaturatingMul
  <2>1. CASE m = n /\ b = w
    BY <1>1, <1>4, <1>7, <2>1
  <2>2. CASE ~(m = n /\ b = w)
    <3>1. info[m][b] # None /\ info'[m][b] = info[m][b]
      BY <1>7, <2>2
    <3>2. b <= height /\ info[m][b] = RecordOf(time[b])
      BY <3>1 DEF TimesInv, RecordsInv
    <3>3. b # w /\ b <= w
      BY <1>4, <3>2 DEF Index
    <3> QED
      BY <1>1, <1>7, <3>1, <3>2, <3>3
  <2> QED
    BY <2>1, <2>2
<1>11. TimesFollowClocks'
  <2>1. /\ latest \div PerSecond \in Nat /\ latest' \div PerSecond \in Nat
        /\ latest \div PerSecond <= latest' \div PerSecond
        /\ now \div PerSecond \in Nat
        /\ now \div PerSecond <= latest' \div PerSecond
    <3>1. latest \in Nat /\ latest' \in Nat /\ now \in Nat
      BY <1>5, TimestampsAssumption DEF U64
    <3>2. /\ latest \div PerSecond \in Nat /\ latest' \div PerSecond \in Nat
          /\ now \div PerSecond \in Nat
          /\ (latest \div PerSecond) * PerSecond <= latest
          /\ (now \div PerSecond) * PerSecond <= now
      BY <1>4, <3>1, DivBounds
    <3>3. /\ (latest \div PerSecond) * PerSecond <= latest'
          /\ (now \div PerSecond) * PerSecond <= latest'
      BY <1>4, <1>5, <3>1, <3>2
    <3> QED
      BY <1>4, <3>1, <3>2, <3>3, DivAtLeast
  <2> HIDE DEF w
  <2>2. \A b \in 0..height : \/ time[b] <= latest' \div PerSecond
                             \/ time[b] = time[0]
    <3> SUFFICES ASSUME NEW b \in 0..height
                 PROVE  \/ time[b] <= latest' \div PerSecond
                        \/ time[b] = time[0]
      OBVIOUS
    <3>1. CASE b = 0
      BY <3>1
    <3>2. CASE b # 0
      <4>1. b \in 1..height /\ b \in Index
        BY <1>4, <3>2 DEF TimesInv, TypeOK, Index
      <4>2. time[b] <= latest \div PerSecond \/ time[b] = time[0]
        BY <4>1 DEF TimesInv, TimesFollowClocks
      <4>3. time[b] \in Nat
        BY <1>6, <4>1, TimestampsAssumption DEF U64
      <4> QED
        BY <2>1, <4>2, <4>3
    <3> QED
      BY <3>1, <3>2
  <2>3. \/ s <= latest' \div PerSecond
        \/ s = time[0]
    <3>1. CASE s = now \div PerSecond
      BY <2>1, <3>1
    <3>2. CASE s = time[p]
      BY <1>2, <1>4, <2>2, <3>2
    <3> QED
      BY <1>3, <3>1, <3>2
  <2>4. ASSUME NEW b \in 1..w
        PROVE  \/ time'[b] <= latest' \div PerSecond
               \/ time'[b] = time'[0]
    <3>1. time'[0] = time[0]
      BY <1>4, <1>7
    <3>2. CASE b = w
      BY <1>7, <2>3, <3>1, <3>2
    <3>3. CASE b # w
      <4>1. b \in 0..height /\ b \in Index \ {w}
        BY <1>4, <3>3 DEF w, Index
      <4> QED
        BY <1>7, <2>2, <3>1, <4>1
    <3> QED
      BY <3>2, <3>3
  <2> QED
    BY <1>1, <2>4 DEF TimesFollowClocks
<1> QED
  BY <1>8, <1>9, <1>10, <1>11 DEF TimesInv

(* A verification. *)
LEMMA VerifyTimes ==
    ASSUME TimesInv, NEW n \in Nodes, NEW b \in Index, Verify(n, b)
    PROVE  TimesInv'
<1>1. /\ b \in 1..height /\ UNCHANGED <<height, parent, time, latest>>
      /\ info' = [info EXCEPT ![n][b] = RecordOf(time[b])]
  BY DEF Verify
<1>2. info \in [Nodes -> [Index -> Records \cup {None}]] /\ height \in Nat
  BY TimestampsAssumption DEF TimesInv, TypeOK, Index
<1>3. RecordOf(time[b]) \in Records
  BY RecordFits DEF TimesInv, TypeOK, FitsInv
<1>4. TypeOK'
  BY <1>1, <1>2, <1>3 DEF TimesInv, TypeOK
<1>5. FitsInv' /\ TimesFollowClocks'
  BY <1>1 DEF TimesInv, FitsInv, TimesFollowClocks
<1>6. RecordsInv'
  <2> SUFFICES ASSUME NEW m \in Nodes, NEW c \in Index, info'[m][c] # None
               PROVE  c <= height /\ info'[m][c] = RecordOf(time[c])
    BY <1>1 DEF RecordsInv, RecordOf, SaturatingMul
  <2>1. CASE m = n /\ c = b
    BY <1>1, <1>2, <2>1
  <2>2. CASE ~(m = n /\ c = b)
    BY <1>1, <1>2, <2>2 DEF TimesInv, RecordsInv
  <2> QED
    BY <2>1, <2>2
<1> QED
  BY <1>4, <1>5, <1>6 DEF TimesInv

(* The inductive invariant holds throughout every behaviour. *)
THEOREM TimesInvariance == Spec => []TimesInv
<1>1. TimesInv /\ [Next]_vars => TimesInv'
  <2> SUFFICES ASSUME TimesInv, [Next]_vars PROVE TimesInv'
    OBVIOUS
  <2>1. CASE UNCHANGED vars
    BY <2>1
    DEF vars, TimesInv, TypeOK, FitsInv, RecordsInv, TimesFollowClocks
  <2>2. CASE Next
    BY <2>2, ProposeTimes, VerifyTimes DEF Next
  <2> QED
    BY <2>1, <2>2
<1> QED
  BY <1>1, TimesInit, PTL DEF Spec

-----------------------------------------------------------------------------
(* The theorems *)

(* Times and records stay within a u64: no sum or product that is kept     *)
(* wraps.                                                                  *)
THEOREM TimestampsTypeCorrect == Spec => []TypeOK
<1>1. TimesInv => TypeOK
  BY DEF TimesInv
<1> QED
  BY <1>1, TimesInvariance, PTL

(* Proposer and verifiers record the same for a block. *)
THEOREM RecordsAlwaysAgree == Spec => []RecordsAgree
<1>1. TimesInv => RecordsAgree
  BY DEF TimesInv, RecordsInv, RecordsAgree
<1> QED
  BY <1>1, TimesInvariance, PTL

(* No proposal is refused for its timestamp, by the payload job, by the    *)
(* import of its header or by a verifier, whatever the clocks show.        *)
THEOREM ProposersNeverRefused == Spec => []ProposerNeverRefused
<1>1. TimesInv => ProposerNeverRefused
  <2> SUFFICES ASSUME TimesInv, NEW n \in Nodes, NEW p \in Index,
                      NEW now \in U64, info[n][p] # None, NEW s,
                      s = ProposedMillis(info[n][p], now) \div PerSecond
               PROVE  /\ AttributesAccepted(s, time[p])
                      /\ HeaderAccepted(s, time[p])
                      /\ MillisAgree(RecordOf(s))
    BY DEF ProposerNeverRefused
  <2>1. /\ time[p] \in U64 /\ time[p] * PerSecond <= U64Max
        /\ info[n][p] = RecordOf(time[p])
    BY DEF TimesInv, TypeOK, FitsInv, RecordsInv
  <2>2. s \in U64 /\ s * PerSecond <= U64Max /\ time[p] <= s
    BY <2>1, ProposalTime
  <2>3. s \in Int /\ time[p] \in Int
    BY <2>1, <2>2, TimestampsAssumption DEF U64
  <2> QED
    BY <2>2, <2>3, RecordFits DEF AttributesAccepted, HeaderAccepted
<1> QED
  BY <1>1, TimesInvariance, PTL

(* Block times do not run ahead of the clocks: proposing past the parent   *)
(* stays within the parent's second.                                       *)
THEOREM TimesFollow == Spec => []TimesFollowClocks
<1>1. TimesInv => TimesFollowClocks
  BY DEF TimesInv
<1> QED
  BY <1>1, TimesInvariance, PTL
=============================================================================
