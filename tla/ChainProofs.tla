----------------------------- MODULE ChainProofs ----------------------------
(***************************************************************************)
(* What is proved of joining a chain, of reading it, of the list while     *)
(* changes wait for it, and of the three together (MCChain).               *)
(*                                                                         *)
(* Time words: the day of a time and its position in the word list are     *)
(* pinned down by a few lemmas of arithmetic, and an answer is always the  *)
(* verdict on the word of the time when the code was made.                 *)
(*                                                                         *)
(* Pulls: whatever is on the chain and not newer than the token has been   *)
(* received.  When the token stays, nothing is newer; what changes later   *)
(* is newer than the start of the pull.                                    *)
(*                                                                         *)
(* The list: what the last sync showed are the logins that no waiting      *)
(* change names, and those that the waiting changes make; a commit, in     *)
(* whatever order, only turns one of the second kind into the first.       *)
(***************************************************************************)
EXTENDS MCChain, FiniteSetTheorems, WellFoundedInduction, TLAPS

-----------------------------------------------------------------------------
(* Time words. *)

\* The rounded day of a time from the epoch on: midnight is in its middle.
LEMMA DayOf ==
  ASSUME NEW t \in Int, t >= 0
  PROVE  LET d == days_since_epoch(t) IN
         /\ d \in Nat
         /\ d * 86400 <= t + 43200 /\ t + 43200 < d * 86400 + 86400
BY DEF days_since_epoch, Day

\* A day is some number of cycles, q, and a position in the word list, r.
LEMMA CycleOf ==
  ASSUME NEW d \in Nat, NEW q \in Nat, q = d \div 2048, NEW r \in Nat, r = d % 2048
  PROVE  d = 2048 * q + r /\ r <= 2047
OBVIOUS

\* Two times x and y, their days b and p, the cycles these are in and their
\* positions in the word list.
Placed(x, y, b, p, qb, rb, qp, rp) ==
  /\ b * 86400 <= x + 43200 /\ x + 43200 < b * 86400 + 86400
  /\ p * 86400 <= y + 43200 /\ y + 43200 < p * 86400 + 86400
  /\ b = 2048 * qb + rb /\ p = 2048 * qp + rp
  /\ rb <= 2047 /\ rp <= 2047

\* Within a cycle, times a day apart have the same position or neighbouring ones.
LEMMA CloseTimes ==
  ASSUME NEW x \in Int, NEW y \in Int, NEW b \in Nat, NEW p \in Nat,
         NEW qb \in Nat, NEW rb \in Nat, NEW qp \in Nat, NEW rp \in Nat,
         Placed(x, y, b, p, qb, rb, qp, rp),
         qb = qp, Abs(y - x) <= Day
  PROVE  Abs(rp - rb) <= 1
<1>1. b - p <= 1 /\ p - b <= 1
  BY DEF Placed, Abs, Day
<1>2. rp - rb = p - b
  BY DEF Placed
<1>. QED BY <1>1, <1>2 DEF Abs

\* Within a cycle, of two positions that are not neighbours the later time has
\* the greater one.
LEMMA LaterTime ==
  ASSUME NEW x \in Int, NEW y \in Int, NEW b \in Nat, NEW p \in Nat,
         NEW qb \in Nat, NEW rb \in Nat, NEW qp \in Nat, NEW rp \in Nat,
         Placed(x, y, b, p, qb, rb, qp, rp),
         qb = qp, ~(Abs(rp - rb) <= 1)
  PROVE  (rp > rb => y > x) /\ (~(rp > rb) => y < x)
<1>1. rp - rb = p - b
  BY DEF Placed
<1>2. (rp > rb => p - b > 1) /\ (~(rp > rb) => b - p > 1)
  BY <1>1 DEF Abs
<1>. QED BY <1>2 DEF Placed

\* Times of neighbouring positions are less than two days from a number of
\* whole cycles apart.
LEMMA NearPositions ==
  ASSUME NEW x \in Int, NEW y \in Int, NEW b \in Nat, NEW p \in Nat,
         NEW qb \in Nat, NEW rb \in Nat, NEW qp \in Nat, NEW rp \in Nat,
         Placed(x, y, b, p, qb, rb, qp, rp),
         Abs(rp - rb) <= 1
  PROVE  Abs(y - x) % Cycle < 2 * Day \/ Abs(y - x) % Cycle > Cycle - 2 * Day
<1>1. rp - rb <= 1 /\ rb - rp <= 1
  BY DEF Abs
<1>2. CASE y >= x
  <2>. DEFINE k == qp - qb
  <2>1. k \in Nat
    BY <1>1, <1>2 DEF Placed
  <2>2. y - x \in Nat
    BY <1>2
  <2>3. /\ y - x < 176947200 * k + 172800
        /\ y - x > 176947200 * k - 172800
    BY <1>1 DEF Placed
  <2>. HIDE DEF k
  <2>4. (y - x) % 176947200 < 172800 \/ (y - x) % 176947200 > 176774400
    BY <2>1, <2>2, <2>3
  <2>. QED BY <1>2, <2>4 DEF Abs, Cycle, Day, WORDLIST_LEN
<1>3. CASE y < x
  <2>. DEFINE k == qb - qp
  <2>1. k \in Nat
    BY <1>1, <1>3 DEF Placed
  <2>2. x - y \in Nat
    BY <1>3
  <2>3. /\ x - y < 176947200 * k + 172800
        /\ x - y > 176947200 * k - 172800
    BY <1>1 DEF Placed
  <2>. HIDE DEF k
  <2>4. (x - y) % 176947200 < 172800 \/ (x - y) % 176947200 > 176774400
    BY <2>1, <2>2, <2>3
  <2>. QED BY <1>3, <2>4 DEF Abs, Cycle, Day, WORDLIST_LEN
<1>. QED BY <1>2, <1>3

\* What parse answers is its verdict on the word of the day of the code.
Answered ==
  /\ born \in Int /\ pasted \in Int
  /\ word = DayWord(born)
  /\ answer # "none" => answer = Verdict(words, word, pasted)

THEOREM AnsweredIsInvariant == TimeSpec => []Answered
<1>1. TimeInit => Answered
  BY TimesAssumption DEF TimeInit, Answered
<1>2. Answered /\ [TimeNext]_timeVars => Answered'
  <2>. SUFFICES ASSUME Answered, [TimeNext]_timeVars PROVE Answered'
    OBVIOUS
  <2>1. ASSUME NEW now \in Times, Generate(now) PROVE Answered'
    BY <2>1, TimesAssumption DEF Generate, Answered
  <2>2. ASSUME NEW now \in Times, NEW count \in {PURE_WORDS - 1, PURE_WORDS, V2_WORDS},
               Parse(now, count)
        PROVE  Answered'
    BY <2>2, TimesAssumption DEF Parse, Answered
  <2>3. CASE UNCHANGED timeVars
    BY <2>3 DEF timeVars, Answered
  <2>. QED BY <2>1, <2>2, <2>3 DEF TimeNext
<1>. QED BY <1>1, <1>2, PTL DEF TimeSpec

\* A code's word is in the word list, and an answer is one of those there are.
THEOREM TimeTypeCorrect == TimeSpec => []TimeTypeOK
<1>1. ASSUME NEW secs \in Times
      PROVE  DayWord(secs) \in 0..WORDLIST_LEN - 1
  <2>1. days_since_epoch(secs) \in Int
    BY TimesAssumption DEF days_since_epoch, Day
  <2>2. PICK days \in Nat : DayWord(secs) = days % 2048
    BY <2>1 DEF DayWord, WORDLIST_LEN
  <2>3. days % 2048 \in 0..2047
    OBVIOUS
  <2>. QED  BY <2>2, <2>3 DEF WORDLIST_LEN
<1>2. ASSUME NEW count, NEW index, NEW secs
      PROVE  Verdict(count, index, secs) \in Answers
  BY DEF Verdict, Answers
<1>3. TimeInit => TimeTypeOK
  BY <1>1 DEF TimeInit, TimeTypeOK, Answers
<1>4. TimeTypeOK /\ [TimeNext]_timeVars => TimeTypeOK'
  <2>. SUFFICES ASSUME TimeTypeOK, [TimeNext]_timeVars  PROVE TimeTypeOK'
    OBVIOUS
  <2>1. ASSUME NEW now \in Times, Generate(now)  PROVE TimeTypeOK'
    BY <1>1, <2>1 DEF Generate, TimeTypeOK, Answers
  <2>2. ASSUME NEW now \in Times, NEW count \in {PURE_WORDS - 1, PURE_WORDS, V2_WORDS},
               Parse(now, count)
        PROVE  TimeTypeOK'
    BY <1>2, <2>2 DEF Parse, TimeTypeOK
  <2>3. CASE UNCHANGED timeVars
    BY <2>3 DEF timeVars, TimeTypeOK
  <2>. QED  BY <2>1, <2>2, <2>3 DEF TimeNext
<1>. QED  BY <1>3, <1>4, PTL DEF TimeSpec

\* A full code that was parsed: where its two times are, and the answer.
LEMMA FullCode ==
  ASSUME Answered, born >= 0, pasted >= 0, words = V2_WORDS, answer # "none"
  PROVE  \E b, p, qb, rb, qp, rp \in Nat :
           /\ Placed(born, pasted, b, p, qb, rb, qp, rp)
           /\ SameCycle => qb = qp
           /\ answer = IF Abs(rp - rb) <= 1 THEN "ok"
                       ELSE IF rp > rb THEN "expired" ELSE "too long"
<1>0. born \in Int /\ pasted \in Int
  BY DEF Answered
<1>1. PICK b \in Nat : b = days_since_epoch(born)
  BY <1>0, DayOf
<1>2. PICK p \in Nat : p = days_since_epoch(pasted)
  BY <1>0, DayOf
<1>3. PICK qb \in Nat : qb = b \div 2048
  OBVIOUS
<1>4. PICK rb \in Nat : rb = b % 2048
  OBVIOUS
<1>5. PICK qp \in Nat : qp = p \div 2048
  OBVIOUS
<1>6. PICK rp \in Nat : rp = p % 2048
  OBVIOUS
<1>7. Placed(born, pasted, b, p, qb, rb, qp, rp)
  <2>1. b * 86400 <= born + 43200 /\ born + 43200 < b * 86400 + 86400
    BY <1>0, <1>1, DayOf
  <2>2. p * 86400 <= pasted + 43200 /\ pasted + 43200 < p * 86400 + 86400
    BY <1>0, <1>2, DayOf
  <2>3. b = 2048 * qb + rb /\ rb <= 2047
    BY <1>3, <1>4, CycleOf
  <2>4. p = 2048 * qp + rp /\ rp <= 2047
    BY <1>5, <1>6, CycleOf
  <2>. QED BY <2>1, <2>2, <2>3, <2>4 DEF Placed
<1>8. ASSUME SameCycle PROVE qb = qp
  <2>1. b \div 2048 = p \div 2048
    BY <1>1, <1>2, <1>8 DEF SameCycle, WORDLIST_LEN
  <2>. QED BY <2>1, <1>3, <1>5
<1>9. word = rb
  <2>1. word = b % 2048
    BY <1>1 DEF Answered, DayWord, WORDLIST_LEN
  <2>. QED BY <2>1, <1>4
<1>10. answer = IF Abs(rp - rb) <= 1 THEN "ok"
                ELSE IF rp > rb THEN "expired" ELSE "too long"
  <2>1. answer = Verdict(V2_WORDS, rb, pasted)
    BY <1>9 DEF Answered
  <2>2. days_since_epoch(pasted) % WORDLIST_LEN = rp
    BY <1>2, <1>6 DEF WORDLIST_LEN
  <2>3. V2_WORDS # PURE_WORDS
    BY DEF V2_WORDS, PURE_WORDS
  <2>. QED BY <2>1, <2>2, <2>3, Zenon DEF Verdict
<1>. QED BY <1>7, <1>8, <1>10

\* Within a cycle of the word list a code is accepted for a day from when it
\* was made, whatever the two clocks show; the seed words alone always are.
THEOREM FreshCodes == TimeSpec => []FreshIsAccepted
<1>1. Answered => FreshIsAccepted
  <2>1. ASSUME Answered, answer # "none", words = PURE_WORDS
        PROVE  answer = "ok"
    BY <2>1 DEF Answered, Verdict
  <2>2. ASSUME Answered, answer # "none", words = V2_WORDS, SameCycle, Abs(pasted - born) <= Day
        PROVE  answer = "ok"
    <3>1. born \in Int /\ pasted \in Int /\ born >= 0 /\ pasted >= 0
      BY <2>2 DEF Answered, SameCycle
    <3>2. PICK b, p, qb, rb, qp, rp \in Nat :
            /\ Placed(born, pasted, b, p, qb, rb, qp, rp)
            /\ SameCycle => qb = qp
            /\ answer = IF Abs(rp - rb) <= 1 THEN "ok"
                        ELSE IF rp > rb THEN "expired" ELSE "too long"
      BY <2>2, <3>1, FullCode
    <3>3. Abs(rp - rb) <= 1
      BY <2>2, <3>1, <3>2, CloseTimes
    <3>. QED BY <3>2, <3>3
  <2>. QED BY <2>1, <2>2 DEF FreshIsAccepted
<1>. QED BY <1>1, AnsweredIsInvariant, PTL

\* A code that is accepted is less than two days old, or that and whole cycles;
\* a refusal within a cycle says which clock is ahead.
THEOREM StaleCodes == TimeSpec => []StaleIsRefused
<1>1. Answered => StaleIsRefused
  <2>1. ASSUME Answered, words = V2_WORDS, born >= 0, pasted >= 0, answer # "none"
        PROVE  /\ answer = "ok" => \/ Abs(pasted - born) % Cycle < 2 * Day
                                  \/ Abs(pasted - born) % Cycle > Cycle - 2 * Day
               /\ answer = "expired" /\ SameCycle => pasted > born
               /\ answer = "too long" /\ SameCycle => pasted < born
    <3>1. born \in Int /\ pasted \in Int
      BY <2>1 DEF Answered
    <3>2. PICK b, p, qb, rb, qp, rp \in Nat :
            /\ Placed(born, pasted, b, p, qb, rb, qp, rp)
            /\ SameCycle => qb = qp
            /\ answer = IF Abs(rp - rb) <= 1 THEN "ok"
                        ELSE IF rp > rb THEN "expired" ELSE "too long"
      BY <2>1, FullCode
    <3>3. CASE Abs(rp - rb) <= 1
      BY <3>1, <3>2, <3>3, NearPositions
    <3>4. CASE ~(Abs(rp - rb) <= 1)
      BY <3>1, <3>2, <3>4, LaterTime
    <3>. QED BY <3>3, <3>4
  <2>. QED BY <2>1 DEF StaleIsRefused
<1>. QED BY <1>1, AnsweredIsInvariant, PTL
-----------------------------------------------------------------------------
(* The invariant of a pull. *)

\* An entity's version carries its name, the time of a change that was made,
\* and of no other one.
Dated ==
  /\ \A e \in Entities : store[e].entity = e /\ store[e].time \in 1..clock
  /\ \A d, e \in Entities : store[d].time = store[e].time => d = e
  /\ started <= clock
PullTypeInv == PullTypeOK /\ Dated /\ nigori # <<>>

\* A received version is of the type it was asked for, and the one on the chain
\* unless that was changed after the pull began.
Received ==
  \A t \in DataTypes : \A n \in DOMAIN all[t] :
    LET v == all[t][n] IN
    /\ v.entity \in Entities /\ TypeOf(v.entity) = t /\ v.time > 0
    /\ \/ store[v.entity] = v
       \/ store[v.entity].time > started /\ store[v.entity].time > v.time
InOrder ==
  \A t \in DataTypes : \A m, n \in DOMAIN all[t] :
    m < n => all[t][m].time < all[t][n].time

\* What the token says: just what is not newer has been received.
Has(e) == \E n \in DOMAIN all[TypeOf(e)] : all[TypeOf(e)][n] = store[e]
UpToToken ==
  phase \in DataTypes =>
    /\ \A n \in DOMAIN all[phase] : all[phase][n].time <= token
    /\ \A e \in Wanted : store[e].time <= token => Has(e)
TabsToCome == phase = "logins" => all["tabs"] = <<>>

\* A type that is read to its end has all that did not change since the start.
Over(t) == phase = "done" \/ (phase = "tabs" /\ t = "logins")
ReadToEnd ==
  \A e \in Entities :
    Over(TypeOf(e)) /\ TypeOf(e) \notin short /\ store[e].time <= started => Has(e)

PullInv ==
  PullTypeInv /\ Received /\ InOrder /\ UpToToken /\ TabsToCome /\ ReadToEnd
  /\ dropped = {}

\* Times and positions of a list of versions are integers.
LEMMA VersionTimes ==
  ASSUME NEW s \in Seq(Version), NEW n \in DOMAIN s
  PROVE  s[n].time \in Int /\ n \in Int
<1>1. s[n] \in Version /\ n \in Int
  OBVIOUS
<1>. QED  BY <1>1 DEF Version

LEMMA Types == DataTypes = {"logins", "tabs"} /\ \A e : TypeOf(e) \in DataTypes
  BY DEF DataTypes, TypeOf

\* Before the first pull nothing is received, and all is dated.
LEMMA PullInitCorrect == PullInit => PullInv
<1>. SUFFICES ASSUME PullInit  PROVE PullInv
  OBVIOUS
<1>. USE DEF PullInit
<1>1. Cardinality(Entities) \in Nat
  BY PullAssumption, FS_CardinalityType
<1>2. PICK time \in Injection(Entities, 1..Cardinality(Entities)) :
        store = [e \in Entities |->
                   [entity |-> e, time |-> time[e], live |-> TRUE, key |-> 1]]
  OBVIOUS
<1>3. /\ time \in [Entities -> 1..Cardinality(Entities)]
      /\ \A d, e \in Entities : time[d] = time[e] => d = e
  BY <1>2 DEF Injection, IsInjective
<1>4. 1 \in Key
  BY PullAssumption DEF Key
<1>5. PullTypeOK
  <2>1. store \in [Entities -> Version]
    BY <1>1, <1>2, <1>3, <1>4 DEF Version
  <2>2. nigori \in Seq(Key) /\ bag \in Seq(Key) /\ <<>> \in Seq(Version)
    BY <1>4
  <2>3. all \in [DataTypes -> Seq(Version)]
    BY <2>2
  <2>4. polls \in 0..MaxPolls - 1
    BY PullAssumption
  <2>. QED  BY <1>1, <2>1, <2>2, <2>3, <2>4 DEF PullTypeOK
<1>6. Dated
  BY <1>1, <1>2, <1>3 DEF Dated
<1>7. Received /\ InOrder
  BY DEF Received, InOrder
<1>. QED  BY <1>5, <1>6, <1>7, Types DEF PullInv, PullTypeInv, UpToToken, TabsToCome,
             ReadToEnd, Over
-----------------------------------------------------------------------------
(* A write on the server. *)

LEMMA PutTypes ==
  ASSUME PullTypeInv, NEW e \in Entities, NEW live \in BOOLEAN, NEW key \in Key,
         Put(e, live, key)
  PROVE  /\ store' \in [Entities -> Version] /\ clock' = clock + 1 /\ clock \in Nat
         /\ store'[e].entity = e /\ store'[e].time = clock + 1 /\ store'[e].key = key
         /\ \A d \in Entities : d # e => store'[d] = store[d]
<1>. USE DEF PullTypeInv, PullTypeOK
<1>. DEFINE new == [entity |-> e, time |-> clock + 1, live |-> live, key |-> key]
<1>1. new \in Version /\ new.entity = e /\ new.time = clock + 1 /\ new.key = key
  BY DEF Version
<1>2. clock' = clock + 1 /\ store' = [store EXCEPT ![e] = new]
  BY DEF Put
<1>. HIDE DEF new
<1>. QED  BY <1>1, <1>2

LEMMA PutDated ==
  ASSUME PullTypeInv, NEW e \in Entities, NEW live \in BOOLEAN, NEW key \in Key,
         Put(e, live, key), started' = started
  PROVE  Dated'
<1>. USE PutTypes DEF PullTypeInv, PullTypeOK, Dated
<1>1. \A d \in Entities : store'[d].entity = d /\ store'[d].time \in 1..clock'
  OBVIOUS
<1>2. \A d, f \in Entities : store'[d].time = store'[f].time => d = f
  OBVIOUS
<1>3. started' <= clock'
  OBVIOUS
<1>. QED  BY <1>1, <1>2, <1>3

\* It is later than the start of the pull, and than all that was received.
LEMMA PutKeeps ==
  ASSUME PullInv, NEW e \in Entities, NEW live \in BOOLEAN, NEW key \in Key,
         Put(e, live, key), UNCHANGED <<all, token, short, started>>,
         phase' = phase \/ phase' = "idle"
  PROVE  Received' /\ InOrder' /\ UpToToken' /\ TabsToCome' /\ ReadToEnd'
<1>. USE DEF PullInv
<1>0. /\ PullTypeInv /\ clock \in Nat /\ started <= clock /\ started \in Nat
      /\ token \in -1..clock
      /\ \A d \in Entities : store[d].time \in 1..clock
  BY DEF PullTypeInv, PullTypeOK, Dated
<1>1. /\ store'[e].time = clock + 1
      /\ \A d \in Entities : d # e => store'[d] = store[d]
  BY <1>0, PutTypes
<1>2. Received'
  <2>. SUFFICES ASSUME NEW t \in DataTypes, NEW n \in DOMAIN all[t],
                       NEW v, v = all[t][n]
                PROVE  /\ v.entity \in Entities /\ TypeOf(v.entity) = t /\ v.time > 0
                       /\ \/ store'[v.entity] = v
                          \/ /\ store'[v.entity].time > started
                             /\ store'[v.entity].time > v.time
    BY DEF Received
  <2>1. /\ v.entity \in Entities /\ TypeOf(v.entity) = t /\ v.time > 0
        /\ \/ store[v.entity] = v
           \/ store[v.entity].time > started /\ store[v.entity].time > v.time
    BY DEF Received
  <2>2. CASE v.entity # e
    BY <1>1, <2>1, <2>2
  <2>3. CASE v.entity = e
    <3>1. v.time \in Int
      <4>1. v \in Version
        BY <1>0 DEF PullTypeInv, PullTypeOK
      <4>. QED  BY <4>1 DEF Version
    <3>. QED  BY <1>0, <1>1, <2>1, <2>3, <3>1
  <2>. QED  BY <2>2, <2>3
<1>3. InOrder'
  BY DEF InOrder
<1>4. \A d \in Entities : store'[d].time <= clock => store'[d] = store[d]
  BY <1>0, <1>1
<1>5. UpToToken'
  <2>. SUFFICES ASSUME phase' \in DataTypes  PROVE UpToToken'
    BY DEF UpToToken
  <2>1. phase' = phase
    BY Types
  <2>2. ASSUME NEW d \in Wanted', store'[d].time <= token
        PROVE  Has(d)'
    <3>1. d \in Wanted /\ d \in Entities
      BY <2>1 DEF Wanted
    <3>2. store'[d] = store[d]
      <4>1. store'[d].time \in Int
        BY <1>0, <1>1, <3>1
      <4>. QED  BY <1>0, <1>4, <2>2, <3>1, <4>1
    <3>. QED  BY <2>1, <2>2, <3>1, <3>2 DEF UpToToken, Has
  <2>. QED  BY <2>1, <2>2 DEF UpToToken
<1>6. TabsToCome'
  BY DEF TabsToCome
<1>7. ReadToEnd'
  <2>. SUFFICES ASSUME NEW d \in Entities, Over(TypeOf(d))', TypeOf(d) \notin short,
                       store'[d].time <= started
                PROVE  Has(d)'
    BY DEF ReadToEnd, TypeOf
  <2>1. store'[d] = store[d]
    <3>1. store'[d].time \in Int
      BY <1>0, <1>1
    <3>. QED  BY <1>0, <1>4, <3>1
  <2>. QED  BY <2>1 DEF ReadToEnd, Over, Has
<1>. QED  BY <1>2, <1>3, <1>5, <1>6, <1>7
-----------------------------------------------------------------------------
(* One poll. *)

\* What an answer holds: some of the next versions, oldest first, and all of
\* them up to the next token; the token stays only when there is none.
Brings(page, next) ==
  /\ page \in Seq(Version) /\ next \in token..clock
  /\ \A n \in DOMAIN page :
       /\ page[n].entity \in Wanted /\ page[n] = store[page[n].entity]
       /\ token < page[n].time /\ page[n].time <= next
  /\ \A m, n \in DOMAIN page : m < n => page[m].time < page[n].time
  /\ \A e \in Wanted : store[e].time <= next =>
       store[e].time <= token \/ \E n \in DOMAIN page : page[n] = store[e]
  /\ next = token => \A e \in Wanted : store[e].time <= token

LEMMA RootAnswers ==
  ASSUME PullTypeInv, token = -1
  PROVE  Brings(<<>>, 0)
<1>1. \A e \in Wanted : store[e].time \in 1..clock
  BY DEF PullTypeInv, Dated, Wanted
<1>. QED  BY <1>1 DEF Brings, PullTypeInv, PullTypeOK

LEMMA PageAnswers ==
  ASSUME PullTypeInv, NEW page \in Pages
  PROVE  Brings(page, IF page = <<>> THEN token ELSE page[Len(page)].time)
<1>. USE DEF PullTypeInv, PullTypeOK, Dated
<1>0. /\ token \in Int /\ clock \in Nat /\ token <= clock /\ PageSize \in Nat \ {0}
      /\ Wanted \subseteq Entities
      /\ \A e \in Entities : store[e].time \in 1..clock /\ store[e].entity = e
  BY PullAssumption DEF Wanted
<1>1. PICK k \in 0..PageSize : page \in [1..k -> Newer]
  BY DEF Pages, SeqOf
<1>2. \A v \in Newer : /\ v.entity \in Wanted /\ v = store[v.entity] /\ token < v.time
                       /\ v.time \in 1..clock
  BY <1>0 DEF Newer
<1>3. Newer \subseteq Version
  BY <1>0, <1>2
<1>4. page \in Seq(Version) /\ Len(page) = k /\ DOMAIN page = 1..k
  BY <1>1, <1>3
<1>5. \A n \in 1..k : page[n] \in Newer
  BY <1>1
<1>6. \A m, n \in 1..k : m < n => page[m].time < page[n].time
  BY <1>4 DEF Pages
<1>7. ASSUME NEW v \in Newer, ~\E n \in 1..k : page[n] = v
      PROVE  k = PageSize /\ \A n \in 1..k : page[n].time < v.time
  <2>1. v \notin Range(page)
    BY <1>4, <1>7 DEF Range
  <2>. QED  BY <1>4, <1>7, <2>1 DEF Pages
<1>8. \A e \in Wanted : store[e].time <= token \/ store[e] \in Newer
  BY <1>0 DEF Newer
<1>9. CASE k = 0
  <2>1. page = <<>>
    BY <1>4, <1>9
  <2>2. Newer = {}
    BY <1>0, <1>7, <1>9
  <2>. QED  BY <1>0, <1>8, <2>1, <2>2 DEF Brings
<1>10. CASE k # 0
  <2>. DEFINE next == page[k].time
  <2>1. page # <<>> /\ k \in 1..k
    BY <1>1, <1>4, <1>10
  <2>2. next \in 1..clock /\ token < next
    BY <1>2, <1>5, <2>1
  <2>3. \A n \in 1..k : page[n].time <= next
    <3>1. \A n \in 1..k : page[n].time \in 1..clock
      BY <1>2, <1>5
    <3>2. ASSUME NEW n \in 1..k
          PROVE  page[n].time <= next
      <4>1. n = k \/ n < k
        BY <1>1
      <4>. QED  BY <1>6, <2>1, <2>2, <3>1, <4>1
    <3>. QED  BY <3>2
  <2>4. ASSUME NEW e \in Wanted, store[e].time <= next, ~(store[e].time <= token)
        PROVE  \E n \in 1..k : page[n] = store[e]
    <3>1. store[e] \in Newer
      BY <1>8, <2>4
    <3>2. ~(next < store[e].time)
      BY <1>0, <2>2, <2>4
    <3>. QED  BY <1>7, <2>1, <3>1, <3>2
  <2>5. next # token
    BY <1>0, <2>2
  <2>6. next \in token..clock
    BY <1>0, <2>2
  <2>. HIDE DEF next
  <2>7. Brings(page, next)
    BY <1>2, <1>4, <1>5, <1>6, <2>3, <2>4, <2>5, <2>6 DEF Brings
  <2>. QED  BY <1>4, <2>1, <2>7 DEF next
<1>. QED  BY <1>9, <1>10

\* What a poll adds, and what it leaves as it is.
Adds(page) ==
  /\ UNCHANGED <<store, clock, nigori, bag, started, dropped>>
  /\ phase \in DataTypes
  /\ all' \in [DataTypes -> Seq(Version)]
  /\ \A t \in DataTypes : t # phase => all'[t] = all[t]
  /\ \A n \in DOMAIN all[phase] : n \in DOMAIN all'[phase] /\ all'[phase][n] = all[phase][n]
  /\ \A k \in DOMAIN page : \E n \in DOMAIN all'[phase] : all'[phase][n] = page[k]
  /\ \A n \in DOMAIN all'[phase] :
       \/ n \in DOMAIN all[phase]
       \/ \E k \in DOMAIN page : n = Len(all[phase]) + k /\ all'[phase][n] = page[k]

LEMMA TakeAdds ==
  ASSUME PullTypeInv, phase \in DataTypes, NEW page \in Seq(Version), NEW next,
         Take(page, next), UNCHANGED <<store, clock, nigori, bag, started, dropped>>
  PROVE  Adds(page)
<1>1. all \in [DataTypes -> Seq(Version)] /\ all[phase] \in Seq(Version)
  BY DEF PullTypeInv, PullTypeOK
<1>2. PICK s, r : s = all[phase] /\ r = s \o page
  OBVIOUS
<1>3. r \in Seq(Version) /\ all' = [all EXCEPT ![phase] = r]
  BY <1>1, <1>2 DEF Take
<1>4. all'[phase] = r /\ \A t \in DataTypes : t # phase => all'[t] = all[t]
  BY <1>1, <1>3
<1>5. /\ \A n \in DOMAIN s : n \in DOMAIN r /\ r[n] = s[n]
      /\ \A k \in DOMAIN page : Len(s) + k \in DOMAIN r /\ r[Len(s) + k] = page[k]
      /\ \A n \in DOMAIN r : \/ n \in DOMAIN s
                             \/ \E k \in DOMAIN page : n = Len(s) + k
  <2>1. /\ s \in Seq(Version) /\ Len(r) = Len(s) + Len(page)
        /\ DOMAIN s = 1..Len(s) /\ DOMAIN page = 1..Len(page) /\ DOMAIN r = 1..Len(r)
    BY <1>1, <1>2, <1>3
  <2>0. s \in Seq(Version) /\ page \in Seq(Version)
    BY <2>1
  <2>2. \A n \in 1..Len(s) : r[n] = s[n]
    BY <1>2, <2>0
  <2>3. ASSUME NEW k \in 1..Len(page)
        PROVE  r[Len(s) + k] = page[k]
    <3>1. Len(s) \in Nat /\ Len(page) \in Nat
      BY <2>0
    <3>2. PICK n \in 1..Len(s) + Len(page) : n = Len(s) + k /\ n > Len(s) /\ n - Len(s) = k
      BY <3>1
    <3>3. r[n] = page[n - Len(s)]
      BY <1>2, <2>0, <3>2
    <3>. QED  BY <3>2, <3>3
  <2>4. ASSUME NEW n \in DOMAIN r, n \notin DOMAIN s
        PROVE  \E k \in DOMAIN page : n = Len(s) + k
    <3>1. Len(s) \in Nat /\ Len(page) \in Nat
      BY <2>0
    <3>2. n \in 1..Len(s) + Len(page) /\ n \notin 1..Len(s)
      BY <2>1, <2>4
    <3>3. n - Len(s) \in 1..Len(page) /\ n = Len(s) + (n - Len(s))
      BY <3>1, <3>2
    <3>. QED  BY <2>1, <3>3
  <2>. QED  BY <2>1, <2>2, <2>3, <2>4
<1>6. \A n \in DOMAIN r : \/ n \in DOMAIN s
                          \/ \E k \in DOMAIN page : n = Len(s) + k /\ r[n] = page[k]
  BY <1>5
<1>7. \A k \in DOMAIN page : \E n \in DOMAIN r : r[n] = page[k]
  BY <1>5
<1>. QED  BY <1>1, <1>2, <1>3, <1>4, <1>5, <1>6, <1>7 DEF Adds

\* What is received is received in order, and everything up to the next token.
LEMMA TakeReceives ==
  ASSUME PullInv, NEW page, NEW next, Brings(page, next), Adds(page)
  PROVE  /\ Received' /\ InOrder'
         /\ \A n \in DOMAIN all'[phase] : all'[phase][n].time <= next
         /\ \A e \in Wanted : store[e].time <= next =>
              \E n \in DOMAIN all'[phase] : all'[phase][n] = store[e]
<1>. USE DEF PullInv, Adds
<1>0. /\ phase \in DataTypes /\ page \in Seq(Version) /\ all[phase] \in Seq(Version)
      /\ token \in Int /\ next \in Int /\ token <= next /\ started \in Nat
      /\ \A e \in Wanted : e \in Entities /\ TypeOf(e) = phase /\ store[e].time > 0
  BY DEF Brings, PullTypeInv, PullTypeOK, Dated, Wanted
<1>1. /\ \A n \in DOMAIN all[phase] : all[phase][n].time \in Int
      /\ \A n \in DOMAIN page : page[n].time \in Int
      /\ DOMAIN all[phase] = 1..Len(all[phase]) /\ DOMAIN page = 1..Len(page)
      /\ Len(all[phase]) \in Nat
  <2>1. /\ \A n \in 1..Len(all[phase]) : all[phase][n] \in Version
        /\ \A n \in 1..Len(page) : page[n] \in Version
        /\ DOMAIN all[phase] = 1..Len(all[phase]) /\ DOMAIN page = 1..Len(page)
        /\ Len(all[phase]) \in Nat
    BY <1>0
  <2>2. \A v \in Version : v.time \in Int
    BY DEF Version
  <2>. QED  BY <2>1, <2>2
<1>2. /\ \A n \in DOMAIN all[phase] : all[phase][n].time <= token
      /\ \A e \in Wanted : store[e].time <= token => Has(e)
  BY <1>0 DEF UpToToken
<1>3. Received'
  <2>. SUFFICES ASSUME NEW t \in DataTypes, NEW n \in DOMAIN all'[t],
                       NEW v, v = all'[t][n]
                PROVE  /\ v.entity \in Entities /\ TypeOf(v.entity) = t /\ v.time > 0
                       /\ \/ store[v.entity] = v
                          \/ /\ store[v.entity].time > started
                             /\ store[v.entity].time > v.time
    BY DEF Received
  <2>1. CASE n \in DOMAIN all[t] /\ v = all[t][n]
    BY <2>1 DEF Received
  <2>2. CASE t = phase /\ \E k \in DOMAIN page : v = page[k]
    <3>1. v.entity \in Wanted /\ v = store[v.entity]
      BY <2>2 DEF Brings
    <3>. QED  BY <1>0, <2>2, <3>1
  <2>. QED  BY <2>1, <2>2
<1>4. InOrder'
  <2>. SUFFICES ASSUME NEW t \in DataTypes, NEW m \in DOMAIN all'[t],
                       NEW n \in DOMAIN all'[t], m < n
                PROVE  all'[t][m].time < all'[t][n].time
    BY DEF InOrder
  <2>1. CASE m \in DOMAIN all[t] /\ n \in DOMAIN all[t]
    <3>1. all[t][m].time < all[t][n].time
      BY <2>1 DEF InOrder
    <3>2. all'[t][m] = all[t][m] /\ all'[t][n] = all[t][n]
      BY <2>1
    <3>. QED  BY <3>1, <3>2
  <2>2. CASE /\ t = phase /\ m \in DOMAIN all[t]
             /\ \E k \in DOMAIN page : n = Len(all[t]) + k /\ all'[t][n] = page[k]
    <3>1. PICK k \in DOMAIN page : all'[t][n] = page[k]
      BY <2>2
    <3>2. token < page[k].time
      BY DEF Brings
    <3>3. all'[t][m] = all[t][m] /\ all[t][m].time <= token
      BY <1>2, <2>2
    <3>4. all[t][m].time \in Int /\ page[k].time \in Int
      BY <1>1, <2>2
    <3>5. all[t][m].time < page[k].time
      <4>1. token \in Int
        BY <1>0
      <4>2. \A x, y \in Int : x <= token /\ token < y => x < y
        BY ONLY <4>1
      <4>. QED  BY <3>2, <3>3, <3>4, <4>2
    <3>. QED  BY <3>1, <3>3, <3>5
  <2>3. CASE /\ t = phase
             /\ \E k \in DOMAIN page : m = Len(all[t]) + k /\ all'[t][m] = page[k]
             /\ \E k \in DOMAIN page : n = Len(all[t]) + k /\ all'[t][n] = page[k]
    <3>1. PICK i \in DOMAIN page : m = Len(all[t]) + i /\ all'[t][m] = page[i]
      BY <2>3
    <3>2. PICK k \in DOMAIN page : n = Len(all[t]) + k /\ all'[t][n] = page[k]
      BY <2>3
    <3>3. i < k
      <4>1. i \in Int /\ k \in Int /\ Len(all[t]) \in Int
        BY <1>1, <2>3
      <4>. QED  BY <3>1, <3>2, <4>1
    <3>. QED  BY <3>1, <3>2, <3>3 DEF Brings
  <2>4. ~(/\ t = phase /\ n \in DOMAIN all[t]
          /\ \E k \in DOMAIN page : m = Len(all[t]) + k)
    BY <1>1
  <2>. QED  BY <2>1, <2>2, <2>3, <2>4
<1>5. ASSUME NEW n \in DOMAIN all'[phase]
      PROVE  all'[phase][n].time <= next
  <2>1. CASE n \in DOMAIN all[phase]
    <3>1. all'[phase][n] = all[phase][n] /\ all[phase][n].time <= token
      BY <1>2, <2>1
    <3>. QED  BY <1>0, <1>1, <2>1, <3>1
  <2>2. CASE \E k \in DOMAIN page : all'[phase][n] = page[k]
    BY <2>2 DEF Brings
  <2>. QED  BY <2>1, <2>2
<1>6. ASSUME NEW e \in Wanted, store[e].time <= next
      PROVE  \E n \in DOMAIN all'[phase] : all'[phase][n] = store[e]
  <2>1. CASE store[e].time <= token
    <3>1. PICK n \in DOMAIN all[phase] : all[phase][n] = store[e]
      BY <1>0, <1>2, <2>1 DEF Has
    <3>. QED  BY <3>1
  <2>2. CASE \E n \in DOMAIN page : page[n] = store[e]
    BY <2>2
  <2>. QED  BY <1>6, <2>1, <2>2 DEF Brings
<1>. QED  BY <1>3, <1>4, <1>5, <1>6

LEMMA TakeKeeps ==
  ASSUME PullInv, phase \in DataTypes, NEW page, NEW next, Brings(page, next),
         Take(page, next), UNCHANGED <<store, clock, nigori, bag, started, dropped>>
  PROVE  PullInv'
<1>. USE DEF PullInv
<1>1. page \in Seq(Version) /\ next \in token..clock
  BY DEF Brings
<1>2. Adds(page)
  BY <1>1, TakeAdds
<1>3. /\ Received' /\ InOrder'
      /\ \A n \in DOMAIN all'[phase] : all'[phase][n].time <= next
      /\ \A e \in Wanted : store[e].time <= next =>
           \E n \in DOMAIN all'[phase] : all'[phase][n] = store[e]
  BY <1>2, TakeReceives
<1>4. \A e \in Wanted : store[e].time <= next => Has(e)'
  BY <1>2, <1>3 DEF Has, Adds, Wanted, TypeOf
<1>5. \A e \in Entities : TypeOf(e) # phase /\ Has(e) => Has(e)'
  BY <1>2, Types DEF Has, Adds, TypeOf
<1>6. /\ Dated' /\ nigori' # <<>> /\ dropped' = {} /\ all' \in [DataTypes -> Seq(Version)]
      /\ UNCHANGED <<store, clock, nigori, bag, started, dropped>>
  BY <1>2 DEF Dated, PullTypeInv, Adds
<1>7. CASE /\ token' = next /\ polls' = polls + 1 /\ polls + 1 # MaxPolls
           /\ phase' = phase /\ short' = short
  <2>1. PullTypeOK'
    <3>1. token' \in -1..clock
      BY <1>1, <1>7 DEF PullTypeInv, PullTypeOK
    <3>2. polls' \in 0..MaxPolls - 1
      BY <1>7, PullAssumption DEF PullTypeInv, PullTypeOK
    <3>. QED  BY <1>6, <1>7, <3>1, <3>2 DEF PullTypeInv, PullTypeOK
  <2>2. UpToToken'
    BY <1>3, <1>4, <1>6, <1>7 DEF UpToToken, Wanted, TypeOf
  <2>3. TabsToCome'
    BY <1>2, <1>7 DEF TabsToCome, Adds, DataTypes
  <2>4. ReadToEnd'
    <3>. SUFFICES ASSUME NEW e \in Entities, Over(TypeOf(e)), TypeOf(e) \notin short,
                         store[e].time <= started
                  PROVE  Has(e)'
      BY <1>6, <1>7 DEF ReadToEnd, Over, TypeOf
    <3>1. TypeOf(e) # phase
      BY Types DEF Over
    <3>. QED  BY <1>5, <3>1 DEF ReadToEnd
  <2>. QED  BY <1>3, <1>6, <2>1, <2>2, <2>3, <2>4 DEF PullTypeInv
<1>8. CASE EndType /\ short \subseteq short' /\ short' \subseteq short \cup {phase}
           /\ (phase \notin short' => next = token)
  <2>1. /\ phase' = IF phase = "logins" THEN "tabs" ELSE "done"
        /\ token' = -1 /\ polls' = 0
    BY <1>8 DEF EndType
  <2>2. PullTypeOK'
    <3>1. token' \in -1..clock
      BY <2>1 DEF PullTypeInv, PullTypeOK
    <3>2. polls' \in 0..MaxPolls - 1
      BY <2>1, PullAssumption
    <3>3. phase' \in {"idle", "logins", "tabs", "done"} /\ short' \subseteq DataTypes
      BY <1>8, <2>1 DEF PullTypeInv, PullTypeOK
    <3>. QED  BY <1>6, <3>1, <3>2, <3>3 DEF PullTypeInv, PullTypeOK
  <2>3. UpToToken'
    <3>. SUFFICES ASSUME phase' \in DataTypes  PROVE UpToToken'
      BY DEF UpToToken
    <3>1. phase = "logins" /\ phase' = "tabs"
      BY <2>1, Types
    <3>2. all'["tabs"] = <<>>
      BY <1>2, <3>1, Types DEF TabsToCome, Adds
    <3>3. \A e \in Wanted' : ~(store'[e].time <= -1)
      <4>1. \A e \in Entities : store[e].time \in 1..clock
        BY DEF PullTypeInv, Dated
      <4>. QED  BY <1>6, <4>1 DEF Wanted
    <3>. QED  BY <2>1, <3>1, <3>2, <3>3 DEF UpToToken
  <2>4. TabsToCome'
    BY <2>1 DEF TabsToCome
  <2>5. ReadToEnd'
    <3>. SUFFICES ASSUME NEW e \in Entities, Over(TypeOf(e))', TypeOf(e) \notin short',
                         store[e].time <= started
                  PROVE  Has(e)'
      BY <1>6 DEF ReadToEnd, TypeOf
    <3>1. CASE TypeOf(e) = phase
      <4>1. e \in Wanted /\ next = token
        BY <1>8, <3>1 DEF Wanted
      <4>2. store[e].time <= next
        BY <4>1 DEF Brings
      <4>. QED  BY <1>4, <4>1, <4>2
    <3>2. CASE TypeOf(e) # phase
      <4>1. Over(TypeOf(e)) /\ TypeOf(e) \notin short
        BY <1>8, <2>1, <3>2, Types DEF Over, TypeOf
      <4>. QED  BY <1>5, <3>2, <4>1 DEF ReadToEnd
    <3>. QED  BY <3>1, <3>2
  <2>. QED  BY <1>3, <1>6, <2>2, <2>3, <2>4, <2>5 DEF PullTypeInv
<1>9. \/ /\ token' = next /\ polls' = polls + 1 /\ polls + 1 # MaxPolls
         /\ phase' = phase /\ short' = short
      \/ EndType /\ short \subseteq short' /\ short' \subseteq short \cup {phase}
         /\ (phase \notin short' => next = token)
  BY DEF Take, CaughtUp
<1>. QED  BY <1>7, <1>8, <1>9
\* A login that is found is of the entity that is meant, and the one on the
\* chain unless that was changed since.
LEMMA FoundIsReceived ==
  ASSUME PullInv, NEW e \in Logins, NEW v \in Found(e)
  PROVE  /\ v \in Version /\ v.entity = e
         /\ store[e] = v \/ store[e].time > started
<1>1. all["logins"] \in Seq(Version) /\ "logins" \in DataTypes
  BY Types DEF PullInv, PullTypeInv, PullTypeOK
<1>2. PICK n \in DOMAIN all["logins"] : v = all["logins"][n] /\ v.entity = e
  BY DEF Found, Read, Items
<1>. QED  BY <1>1, <1>2 DEF PullInv, Received
-----------------------------------------------------------------------------
(* The steps. *)

LEMMA PullStep == PullInv /\ [PullNext]_pullVars => PullInv'
<1>. SUFFICES ASSUME PullInv, [PullNext]_pullVars  PROVE PullInv'
  OBVIOUS
<1>0. PullTypeInv /\ dropped = {}
  BY DEF PullInv
<1>. USE DEF PullTypeInv, PullTypeOK
<1>1. ASSUME NEW e \in Entities, NEW live \in BOOLEAN, OtherWrites(e, live)
      PROVE  PullInv'
  <2>1. PICK key \in Key : Put(e, live, key)
    <3>1. Head(nigori) \in Key
      BY <1>0
    <3>2. store[e].key \in Key
      BY <1>0 DEF Version
    <3>. QED  BY <1>1, <3>1, <3>2 DEF OtherWrites
  <2>2. UNCHANGED <<nigori, phase, bag, token, all, polls, short, started, dropped>>
    BY <1>1 DEF OtherWrites
  <2>3. PullTypeOK' /\ nigori' # <<>>
    BY <1>0, <2>1, <2>2, PutTypes
  <2>4. Dated'
    BY <1>0, <2>1, <2>2, PutDated
  <2>5. Received' /\ InOrder' /\ UpToToken' /\ TabsToCome' /\ ReadToEnd'
    BY <2>1, <2>2, PutKeeps
  <2>. QED  BY <1>0, <2>2, <2>3, <2>4, <2>5 DEF PullInv
<1>2. CASE Rotate
  <2>1. nigori' \in Seq(Key) /\ nigori' # <<>>
    <3>1. Len(nigori) + 1 \in Key
      BY <1>0, <1>2, PullAssumption DEF Rotate, Key
    <3>2. nigori' = <<Len(nigori) + 1>> \o nigori
      BY <1>2 DEF Rotate
    <3>3. <<Len(nigori) + 1>> \in Seq(Key)
      BY <3>1
    <3>. HIDE DEF Key
    <3>. QED  BY <1>0, <3>2, <3>3
  <2>2. UNCHANGED <<store, clock, phase, bag, token, all, polls, short, started, dropped>>
    BY <1>2 DEF Rotate
  <2>. QED  BY <1>0, <2>1, <2>2 DEF PullInv, Dated, Received, InOrder, UpToToken,
               TabsToCome, ReadToEnd, Has, Over, Wanted, TypeOf
<1>3. CASE BeginPull
  <2>1. /\ all' = [t \in DataTypes |-> <<>>] /\ phase' = "logins" /\ token' = -1
        /\ bag' = nigori /\ polls' = 0 /\ short' = {} /\ started' = clock
        /\ UNCHANGED <<store, clock, nigori, dropped>>
    BY <1>3 DEF BeginPull
  <2>2. \A t \in DataTypes : all'[t] = <<>>
    BY <2>1
  <2>3. PullTypeOK'
    <3>1. <<>> \in Seq(Version)
      OBVIOUS
    <3>2. all' \in [DataTypes -> Seq(Version)]
      BY <2>1, <3>1
    <3>. QED  BY <1>0, <2>1, <3>2, PullAssumption
  <2>4. Dated'
    BY <1>0, <2>1 DEF Dated
  <2>5. Received' /\ InOrder'
    BY <2>2 DEF Received, InOrder
  <2>6. UpToToken'
    <3>1. \A e \in Wanted' : ~(store'[e].time <= -1)
      <4>1. \A e \in Entities : store[e].time \in 1..clock
        BY <1>0 DEF Dated
      <4>. QED  BY <2>1, <4>1 DEF Wanted
    <3>. QED  BY <2>1, <2>2, <3>1 DEF UpToToken
  <2>7. TabsToCome' /\ ReadToEnd'
    BY <2>1, <2>2, Types DEF TabsToCome, ReadToEnd, Over
  <2>. QED  BY <1>0, <2>1, <2>3, <2>4, <2>5, <2>6, <2>7 DEF PullInv
<1>4. CASE Poll
  <2>1. /\ phase \in DataTypes
        /\ UNCHANGED <<store, clock, nigori, bag, started, dropped>>
    BY <1>4 DEF Poll, Reading
  <2>2. CASE token = -1 /\ Take(<<>>, 0)
    BY <1>0, <2>1, <2>2, RootAnswers, TakeKeeps
  <2>3. ASSUME NEW page \in Pages,
               Take(page, IF page = <<>> THEN token ELSE page[Len(page)].time)
        PROVE  PullInv'
    BY <1>0, <2>1, <2>3, PageAnswers, TakeKeeps
  <2>. QED  BY <1>4, <2>2, <2>3 DEF Poll
<1>5. CASE PullFails \/ Leave
  <2>1. /\ phase' = "idle"
        /\ UNCHANGED <<store, clock, nigori, bag, token, all, polls, short, started, dropped>>
    BY <1>5 DEF PullFails, Leave
  <2>. QED  BY <1>0, <2>1, Types DEF PullInv, Dated, Received, InOrder, UpToToken,
               TabsToCome, ReadToEnd, Over
<1>6. CASE TypeFails
  <2>1. /\ phase = "tabs" /\ phase' = "done" /\ token' = -1 /\ polls' = 0
        /\ all' = [all EXCEPT !["tabs"] = <<>>] /\ short' = short \cup {"tabs"}
        /\ UNCHANGED <<store, clock, nigori, bag, started, dropped>>
    BY <1>6 DEF TypeFails, EndType
  <2>2. all'["tabs"] = <<>> /\ all'["logins"] = all["logins"]
    BY <1>0, <2>1, Types
  <2>3. PullTypeOK'
    <3>1. <<>> \in Seq(Version)
      OBVIOUS
    <3>2. all' \in [DataTypes -> Seq(Version)]
      BY <1>0, <2>1, <3>1
    <3>. QED  BY <1>0, <2>1, <3>2, Types, PullAssumption
  <2>4. Dated' /\ TabsToCome' /\ UpToToken'
    BY <1>0, <2>1, Types DEF Dated, TabsToCome, UpToToken
  <2>5. Received' /\ InOrder'
    BY <2>1, <2>2, Types DEF PullInv, Received, InOrder
  <2>6. ReadToEnd'
    <3>. SUFFICES ASSUME NEW e \in Entities, TypeOf(e) \notin short', store[e].time <= started
                  PROVE  Has(e)'
      BY <2>1 DEF ReadToEnd, TypeOf
    <3>1. TypeOf(e) = "logins" /\ TypeOf(e) \notin short
      BY <2>1, Types
    <3>2. Has(e)
      BY <2>1, <3>1 DEF PullInv, ReadToEnd, Over
    <3>. QED  BY <2>1, <2>2, <3>1, <3>2 DEF Has, TypeOf
  <2>. QED  BY <1>0, <2>1, <2>3, <2>4, <2>5, <2>6 DEF PullInv
<1>7. ASSUME NEW e \in Logins, NEW live \in BOOLEAN, CommitFound(e, live)
      PROVE  PullInv'
  <2>1. /\ e \in Entities
        /\ phase' = "idle" /\ UNCHANGED <<nigori, bag, token, all, polls, short, started>>
    BY <1>7 DEF CommitFound, Entities
  <2>2. PICK v \in Found(e) :
          IF IsCurrent(v)
            THEN Put(e, live, Rekey(v)) /\ UNCHANGED dropped
            ELSE /\ dropped' = IF store[e].time <= started THEN dropped \cup {e} ELSE dropped
                 /\ UNCHANGED <<store, clock>>
    BY <1>7 DEF CommitFound
  <2>0. /\ v \in Version /\ v.entity = e
        /\ store[e] = v \/ store[e].time > started
    BY FoundIsReceived
  <2>3. CASE IsCurrent(v)
    <3>1. v.key \in Key
      BY <2>0 DEF Version
    <3>2. Put(e, live, v.key) /\ dropped' = dropped
      BY <2>2, <2>3 DEF Rekey
    <3>3. PullTypeOK' /\ nigori' # <<>>
      BY <1>0, <2>1, <3>1, <3>2, PutTypes
    <3>4. Dated'
      BY <1>0, <2>1, <3>1, <3>2, PutDated
    <3>5. Received' /\ InOrder' /\ UpToToken' /\ TabsToCome' /\ ReadToEnd'
      BY <2>1, <3>1, <3>2, PutKeeps
    <3>. QED  BY <1>0, <3>2, <3>3, <3>4, <3>5 DEF PullInv
  <2>4. CASE ~IsCurrent(v)
    <3>1. ~(store[e].time <= started)
      <4>1. store[e].time \in Int /\ started \in Int
        BY <1>0, <2>1 DEF Version
      <4>. QED  BY <2>0, <2>4, <4>1 DEF IsCurrent
    <3>2. UNCHANGED <<store, clock, dropped>>
      BY <2>2, <2>4, <3>1
    <3>. QED  BY <1>0, <2>1, <3>2, Types DEF PullInv, Dated, Received, InOrder, UpToToken,
                 TabsToCome, ReadToEnd, Over
  <2>. QED  BY <2>3, <2>4
<1>8. CASE UNCHANGED pullVars
  BY <1>0, <1>8 DEF pullVars, PullInv, Dated, Received, InOrder, UpToToken, TabsToCome,
     ReadToEnd, Has, Over, Wanted, TypeOf
<1>. QED  BY <1>1, <1>2, <1>3, <1>4, <1>5, <1>6, <1>7, <1>8 DEF PullNext

\* The invariant holds of every reachable state.
THEOREM PullInvariant == PullSpec => []PullInv
<1>1. PullInit => PullInv
  BY PullInitCorrect
<1>2. PullInv /\ [PullNext]_pullVars => PullInv'
  BY PullStep
<1>. QED  BY <1>1, <1>2, PTL DEF PullSpec

\* The token never runs past the time of the chain, nor the polls to the cap,
\* and what is received and committed is an entity's version.
THEOREM PullTypeCorrect == PullSpec => []PullTypeOK
<1>1. PullInv => PullTypeOK
  BY DEF PullInv, PullTypeInv
<1>. QED  BY PullInvariant, <1>1, PTL

\* Two versions that were received at the same time are one, and what did not
\* change since the pull began was received once.
LEMMA OnceReceived ==
  ASSUME PullInv, NEW t \in DataTypes, NEW m \in DOMAIN all[t], NEW n \in DOMAIN all[t],
         all[t][m].time = all[t][n].time
  PROVE  m = n
<1>1. all[t] \in Seq(Version)
  BY DEF PullInv, PullTypeInv, PullTypeOK
<1>2. all[t][m].time \in Int /\ all[t][n].time \in Int /\ m \in Int /\ n \in Int
  BY <1>1, VersionTimes
<1>3. ~(m < n) /\ ~(n < m)
  BY <1>2 DEF PullInv, InOrder
<1>. QED  BY <1>2, <1>3

\* At the end of a pull, whatever other devices have written between its pages,
\* the items of a type that was not cut short are what was on the chain from
\* beginning to end, once, and else only what was there until it changed.
THEOREM PullIsExactCorrect == PullSpec => []PullIsExact
<1>1. ASSUME PullInv
      PROVE  PullIsExact
  <2>. SUFFICES ASSUME phase = "done"  PROVE PullIsExact
    BY DEF PullIsExact
  <2>0. /\ store \in [Entities -> Version] /\ started \in Int
        /\ \A e \in Entities : store[e].entity = e /\ store[e].time \in Int
    BY <1>1 DEF PullInv, PullTypeInv, PullTypeOK, Dated
  <2>1. ASSUME NEW v \in Settled, TypeOf(v.entity) \notin short
        PROVE  \E n \in ItemsOf(v.entity) :
                 ItemsOf(v.entity) = {n} /\ all[TypeOf(v.entity)][n] = v
    <3>0. PICK t \in DataTypes : t = TypeOf(v.entity)
      BY Types
    <3>1. v.entity \in Entities /\ v = store[v.entity] /\ v.time <= started /\ Readable(v)
      BY <2>0 DEF Settled, Range
    <3>2. PICK n \in DOMAIN all[t] : all[t][n] = v
      BY <1>1, <2>1, <3>0, <3>1 DEF PullInv, ReadToEnd, Over, Has
    <3>3. n \in ItemsOf(v.entity)
      BY <3>0, <3>1, <3>2 DEF ItemsOf, Items
    <3>4. ASSUME NEW m \in ItemsOf(v.entity)
          PROVE  m = n
      <4>1. m \in DOMAIN all[t] /\ all[t][m].entity = v.entity
        BY <3>0 DEF ItemsOf, Items
      <4>2. ~(store[v.entity].time > started)
        BY <2>0, <3>1
      <4>3. all[t][m] = v
        BY <1>1, <3>1, <4>1, <4>2 DEF PullInv, Received
      <4>. QED  BY <1>1, <3>2, <4>1, <4>3, OnceReceived
    <3>. QED  BY <3>0, <3>2, <3>3, <3>4
  <2>2. ASSUME NEW t \in DataTypes, NEW v \in Read(t)
        PROVE  store[v.entity].time > started \/ (store[v.entity] = v /\ v.live)
    <3>1. PICK n \in DOMAIN all[t] : v = all[t][n] /\ Readable(v)
      BY DEF Read, Items
    <3>. QED  BY <1>1, <3>1 DEF PullInv, Received, Readable
  <2>. QED  BY <2>1, <2>2 DEF PullIsExact
<1>. QED  BY PullInvariant, <1>1, PTL

\* A commit that the server did not take, and that the client reports as done,
\* was of an entity that another device changed after the client began.
THEOREM DroppedOnlyIfChangedCorrect == PullSpec => []DroppedOnlyIfChanged
<1>1. PullInv => DroppedOnlyIfChanged
  BY DEF PullInv, DroppedOnlyIfChanged
<1>. QED  BY PullInvariant, <1>1, PTL

\* Every tab that was read has a place on the screen, under the last title of
\* its group: the versions of a group come in order, so the one that is on the
\* chain is the last.
THEOREM TabsAreShownCorrect == PullSpec => []TabsAreShown
<1>1. ASSUME PullInv
      PROVE  TabsAreShown
  <2>. SUFFICES ASSUME phase = "done", NEW v \in Read("tabs"), v.entity \in Tabs,
                       NEW g, g = GroupOf[v.entity]
                PROVE  /\ \E d \in DOMAIN DeviceRows : v \in DeviceRows[d]
                       /\ g \in Shown("tabs") =>
                            /\ v \in TabRows[g].tabs
                            /\ store[g] \in Read("tabs") => TabRows[g].title = store[g].time
    BY DEF TabsAreShown
  <2>1. \E d \in DOMAIN DeviceRows : v \in DeviceRows[d]
    <3>1. PICK d : d = DeviceOf(v.entity)
      OBVIOUS
    <3>2. d \in DOMAIN DeviceRows /\ v \in DeviceRows[d]
      BY <3>1 DEF DeviceRows, Shown
    <3>. QED  BY <3>2
  <2>2. ASSUME g \in Shown("tabs")
        PROVE  v \in TabRows[g].tabs /\ TabRows[g].title = TitleOf(g)
    <3>1. g \in Groups
      BY PullAssumption
    <3>. QED  BY <2>2, <3>1 DEF TabRows
  <2>3. ASSUME store[g] \in Read("tabs")
        PROVE  TitleOf(g) = store[g].time
    <3>0. /\ g \in Entities /\ TypeOf(g) = "tabs" /\ "tabs" \in DataTypes
          /\ all["tabs"] \in Seq(Version) /\ store[g].entity = g
      <4>1. g \in Groups /\ g \notin Logins
        BY PullAssumption
      <4>. QED  BY <1>1, <4>1, Types DEF Entities, TypeOf, PullInv, PullTypeInv, PullTypeOK,
                   Dated
    <3>1. PICK n \in Items("tabs") : all["tabs"][n] = store[g]
      BY <2>3 DEF Read
    <3>2. n \in DOMAIN all["tabs"] /\ n \in ItemsOf(g)
      BY <3>0, <3>1 DEF ItemsOf, Items
    <3>3. ASSUME NEW m \in ItemsOf(g)
          PROVE  n >= m /\ (m >= n => m = n)
      <4>1. m \in DOMAIN all["tabs"] /\ all["tabs"][m].entity = g
        BY <3>0 DEF ItemsOf, Items
      <4>2. /\ m \in Int /\ n \in Int
            /\ all["tabs"][m].time \in Int /\ all["tabs"][n].time \in Int
        BY <3>0, <3>2, <4>1, VersionTimes
      <4>3. ~(all["tabs"][n].time < all["tabs"][m].time)
        <5>1. Received
          BY <1>1 DEF PullInv
        <5>2. store[g] = all["tabs"][m] \/ store[g].time > all["tabs"][m].time
          BY <3>0, <4>1, <5>1 DEF Received
        <5>. QED  BY <3>1, <4>2, <5>2
      <4>4. ~(n < m)
        BY <1>1, <3>0, <3>2, <4>1, <4>3 DEF PullInv, InOrder
      <4>. QED  BY <4>2, <4>4
    <3>4. Max(ItemsOf(g)) = n
      <4>1. PICK S : S = ItemsOf(g)
        OBVIOUS
      <4>2. Max(S) \in S /\ \A m \in S : Max(S) >= m
        BY <3>2, <3>3, <4>1 DEF Max
      <4>. QED  BY <3>2, <3>3, <4>1, <4>2
    <3>. QED  BY <3>1, <3>4 DEF TitleOf
  <2>. QED  BY <2>1, <2>2, <2>3
<1>. QED  BY PullInvariant, <1>1, PTL

\* An edit or a deletion seals with the key of what it found, which is what the
\* server has if it takes the commit.
THEOREM EditKeepsKeyCorrect == PullSpec => EditKeepsKey
<1>1. ASSUME PullInv, [PullNext]_pullVars, phase = "done", phase' = "idle",
             NEW e \in Entities
      PROVE  store'[e].key = store[e].key
  <2>1. CASE UNCHANGED store
    BY <2>1
  <2>2. ASSUME NEW f \in Logins, NEW live \in BOOLEAN, CommitFound(f, live)
        PROVE  store'[e].key = store[e].key
    <3>1. PICK v \in Found(f) : IF IsCurrent(v) THEN Put(f, live, Rekey(v))
                                               ELSE UNCHANGED store
      BY <2>2 DEF CommitFound
    <3>2. f \in Entities /\ v \in Version /\ v.entity = f
      BY <1>1, FoundIsReceived DEF Entities
    <3>3. CASE IsCurrent(v)
      <4>1. v = store[f] /\ v.key \in Key
        BY <3>2, <3>3 DEF IsCurrent, Version
      <4>2. Put(f, live, store[f].key)
        BY <3>1, <3>3, <4>1 DEF Rekey
      <4>3. store'[f].key = store[f].key /\ \A d \in Entities : d # f => store'[d] = store[d]
        BY <1>1, <3>2, <4>1, <4>2, PutTypes DEF PullInv
      <4>. QED  BY <4>3
    <3>. QED  BY <2>1, <3>1, <3>3
  <2>3. ASSUME NEW f \in Entities, NEW live \in BOOLEAN, OtherWrites(f, live)
        PROVE  FALSE
    BY <1>1, <2>3 DEF OtherWrites
  <2>. QED  BY <1>1, <2>1, <2>2, <2>3 DEF PullNext, Rotate, BeginPull, Poll, PullFails,
               TypeFails, Leave, pullVars
<1>2. PullInv /\ [PullNext]_pullVars =>
        [phase = "done" /\ phase' = "idle" =>
           \A e \in Entities : store'[e].key = store[e].key]_pullVars
  BY <1>1
<1>. QED  BY PullInvariant, <1>2, PTL DEF PullSpec, EditKeepsKey
-----------------------------------------------------------------------------
(* The list while changes wait. *)

RowsInv ==
  /\ marks \subseteq Bookmarks /\ rows.bm \subseteq Bookmarks
  /\ rows.pw = Flagged(rows.pw)

\* Flags compare what they do not change.
LEMMA FlaggedTwice == ASSUME NEW pw PROVE Flagged(Flagged(pw)) = Flagged(pw)
<1>1. PICK once : once = Flagged(pw)
  OBVIOUS
<1>2. /\ DOMAIN once = DOMAIN pw
      /\ \A n \in DOMAIN pw :
           /\ once[n].id = pw[n].id /\ once[n].site = pw[n].site
           /\ once[n].user = pw[n].user /\ once[n].title = pw[n].title
           /\ once[n].pass = pw[n].pass
  BY <1>1 DEF Flagged
<1>3. ASSUME NEW n \in DOMAIN pw
      PROVE  Flagged(once)[n] = Flagged(pw)[n]
  <2>1. (\E m \in (DOMAIN pw) \ {n} : once[m].pass = once[n].pass)
          <=> (\E m \in (DOMAIN pw) \ {n} : pw[m].pass = pw[n].pass)
    BY <1>2
  <2>2. (\E m \in (DOMAIN pw) \ {n} :
           once[m].site = once[n].site /\ once[m].user = once[n].user
             /\ once[m].pass # once[n].pass)
          <=> (\E m \in (DOMAIN pw) \ {n} :
                 pw[m].site = pw[n].site /\ pw[m].user = pw[n].user
                   /\ pw[m].pass # pw[n].pass)
    BY <1>2
  <2>. QED  BY <1>2, <2>1, <2>2 DEF Flagged
<1>4. Flagged(once) = Flagged(pw)
  <2>1. /\ Flagged(once) = [n \in DOMAIN pw |-> Flagged(once)[n]]
        /\ Flagged(pw) = [n \in DOMAIN pw |-> Flagged(pw)[n]]
    BY <1>2 DEF Flagged
  <2>. QED  BY <1>3, <2>1
<1>. QED  BY <1>1, <1>4

\* The rows are flagged last, whatever the overlay has made of them, and of the
\* bookmarks it only takes some away.
LEMMA RebuiltFlagged ==
  ASSUME NEW data, NEW queue
  PROVE  LET made == Rebuilt(data, queue) IN
         made.pw = Flagged(made.pw) /\ made.bm \subseteq data.marks
<1>1. PICK pw : Rebuilt(data, queue).pw = Flagged(pw)
  BY DEF Rebuilt, Overlaid
<1>2. Rebuilt(data, queue).bm \subseteq data.marks
  BY DEF Rebuilt, Overlaid
<1>. QED  BY <1>1, <1>2, FlaggedTwice

\* No bookmark is out of reach: one whose folder is not listed is at the top, and
\* a set of bookmarks nothing leads to would have folders without end.
LEMMA AllOpened ==
  ASSUME RowsInv, NEW S \in SUBSET Bookmarks, OpenedSet(S)
  PROVE  rows.bm \subseteq S
<1>. SUFFICES ASSUME rows.bm \ S # {}  PROVE FALSE
  OBVIOUS
<1>1. PICK b \in rows.bm \ S : ParentOf[b] \notin rows.bm \ S
  BY FoldersAssumption DEF RowsInv
<1>2. ParentOf[b] \in rows.bm /\ ParentOf[b] \in S
  BY <1>1 DEF OpenedSet, Listed
<1>3. b \in Listed(ParentOf[b]) /\ UrlOf[ParentOf[b]] = NoUrl
  BY <1>1, <1>2, OverlayAssumption DEF Listed, RowsInv
<1>. QED  BY <1>1, <1>2, <1>3 DEF OpenedSet

LEMMA RowsStep == RowsInv /\ [OverlayNext]_overlayVars => RowsInv'
<1>. SUFFICES ASSUME RowsInv, [OverlayNext]_overlayVars  PROVE RowsInv'
  OBVIOUS
<1>1. marks' \subseteq marks
  BY DEF OverlayNext, Queue, Fetch, Post, Accepted, Conflict, Fails, Clear, SyncRows, Foreign,
         overlayVars
<1>2. CASE UNCHANGED rows
  BY <1>1, <1>2 DEF RowsInv
<1>3. CASE SyncRows
  <2>1. PICK data : data = [logins |-> logins, marks |-> marks]
    OBVIOUS
  <2>2. rows' = Rebuilt(data, outbox)
    BY <1>3, <2>1 DEF SyncRows
  <2>. QED  BY <1>1, <2>1, <2>2, RebuiltFlagged DEF RowsInv
<1>. QED  BY <1>2, <1>3 DEF OverlayNext, Queue, Fetch, Post, Conflict, Fails, Clear, Foreign,
                             overlayVars

\* Whatever changes wait, and whatever other devices do: every bookmark of the
\* list can be opened to, and the passwords' flags are those of the rows that
\* are shown.
THEOREM NothingHiddenCorrect == OverlaySpec => []NothingHidden
<1>1. OverlayInit => RowsInv
  <2>1. PICK data : data = [logins |-> logins, marks |-> marks]
    OBVIOUS
  <2>. QED  BY <2>1, RebuiltFlagged DEF OverlayInit, RowsInv
<1>2. RowsInv /\ [OverlayNext]_overlayVars => RowsInv'
  BY RowsStep
<1>3. RowsInv => NothingHidden
  BY AllOpened DEF RowsInv, NothingHidden
<1>. QED  BY <1>1, <1>2, <1>3, PTL DEF OverlaySpec
-----------------------------------------------------------------------------
(* Folds of a queue. *)

\* Before, as a relation.
Before == {ss \in Nat \X Nat : ss[1] < ss[2]}

\* A set of naturals has a least element.
LEMMA Least ==
  ASSUME NEW S \in SUBSET Nat, S # {}
  PROVE  \E n \in S : \A m \in S : n <= m
<1>1. IsWellFoundedOn(Before, Nat)
  BY NatLessThanWellFounded DEF OpToRel, Before
<1>2. PICK n \in S : \A m \in S : <<m, n>> \notin Before
  BY <1>1, WFMin
<1>3. ASSUME NEW m \in S, m < n
      PROVE  <<m, n>> \in Before
  <2>. DEFINE ss == <<m, n>>
  <2>1. ss[1] = m /\ ss[2] = n /\ ss \in Nat \X Nat
    OBVIOUS
  <2>2. ss \in Before
    <3>. HIDE DEF ss
    <3>. QED  BY <1>3, <2>1 DEF Before
  <2>. QED  BY <2>2
<1>4. ASSUME NEW m \in S
      PROVE  n <= m
  <2>1. ~(m < n)
    BY <1>2, <1>3
  <2>. QED  BY <2>1
<1>. QED  BY <1>4

\* Induction up to a bound, for a set of numbers.
LEMMA UpTo ==
  ASSUME NEW n \in Nat, NEW S, 0 \in S, \A k \in 1..n : k - 1 \in S => k \in S
  PROVE  0..n \subseteq S
<1>. DEFINE Bad == {k \in 0..n : k \notin S}
<1>. SUFFICES ASSUME Bad # {}  PROVE FALSE
  OBVIOUS
<1>1. Bad \in SUBSET Nat
  OBVIOUS
<1>2. PICK k \in Bad : \A m \in Bad : k <= m
  <2>. HIDE DEF Bad
  <2>. QED  BY <1>1, Least
<1>3. k \in 1..n /\ k - 1 \in 0..n
  BY <1>2
<1>4. k - 1 \in S
  BY <1>2, <1>3
<1>. QED  BY <1>2, <1>3, <1>4

\* The first n positions of a queue.
LEMMA Initial ==
  ASSUME NEW n \in Nat
  PROVE  /\ 1..n = {} <=> n = 0
         /\ n > 0 => Max(1..n) = n /\ (1..n) \ {n} = 1..n - 1
<1>1. n > 0 => Max(1..n) = n
  <2>. SUFFICES ASSUME n > 0  PROVE Max(1..n) = n
    OBVIOUS
  <2>1. n \in 1..n /\ \A y \in 1..n : n >= y
    OBVIOUS
  <2>2. \A x \in 1..n : (\A y \in 1..n : x >= y) => x = n
    BY <2>1
  <2>. QED  BY <2>1, <2>2 DEF Max
<1>. QED  BY <1>1

\* The largest position of some of the first n, and the others.
LEMMA Largest ==
  ASSUME NEW n \in Nat, NEW T \in SUBSET (1..n), T # {}
  PROVE  /\ Max(T) \in T /\ T \ {Max(T)} \in SUBSET (1..n)
         /\ n \in T => Max(T) = n
         /\ T \ {Max(T)} \in SUBSET (1..n - 1)
<1>1. \E x \in T : \A y \in T : x >= y
  <2>. DEFINE Above == {k \in Nat : \A y \in T : y <= k}
  <2>1. n \in Above
    OBVIOUS
  <2>2. PICK k \in Above : \A j \in Above : k <= j
    BY <2>1, Least
  <2>3. ASSUME k \notin T  PROVE FALSE
    <3>1. PICK y \in T : y \in 1..n /\ y <= k
      BY <2>2
    <3>2. k - 1 \in Nat
      BY <2>2, <3>1
    <3>3. \A z \in T : z <= k - 1
      BY <2>2, <2>3
    <3>. QED  BY <2>2, <3>2, <3>3
  <2>. QED  BY <2>2, <2>3
<1>2. Max(T) \in T /\ \A y \in T : Max(T) >= y
  BY <1>1 DEF Max
<1>3. Max(T) \in 1..n
  BY <1>2
<1>4. n \in T => Max(T) = n
  BY <1>2, <1>3
<1>5. T \ {Max(T)} \in SUBSET (1..n - 1)
  <2>. SUFFICES ASSUME NEW y \in T, y # Max(T)  PROVE y \in 1..n - 1
    OBVIOUS
  <2>1. y \in 1..n /\ y <= Max(T)
    BY <1>2
  <2>. QED  BY <1>3, <2>1
<1>. QED  BY <1>2, <1>4, <1>5

\* The equation by which FoldLeft is defined has a solution, for a step that is a
\* function of what was made so far and the next element.
Foldable(D, E, step, base, queue) ==
  step \in [D \X E -> D] /\ base \in D /\ queue \in Seq(E)
Folded(g, D, step, base, queue) ==
  /\ g \in [SUBSET (1..Len(queue)) -> D]
  /\ \A s \in SUBSET (1..Len(queue)) :
       g[s] = IF s = {} THEN base ELSE step[g[s \ {Max(s)}], queue[Max(s)]]

LEMMA FoldExists ==
  ASSUME NEW D, NEW E, NEW step, NEW base, NEW queue, Foldable(D, E, step, base, queue)
  PROVE  \E g : Folded(g, D, step, base, queue)
<1>. USE DEF Foldable
<1>. DEFINE Solves(g, n) ==
       /\ g \in [SUBSET (1..n) -> D]
       /\ \A s \in SUBSET (1..n) :
            g[s] = IF s = {} THEN base ELSE step[g[s \ {Max(s)}], queue[Max(s)]]
<1>1. ASSUME NEW n \in 1..Len(queue), NEW g, Solves(g, n - 1)
      PROVE  \E h : Solves(h, n)
  <2>. DEFINE h == [s \in SUBSET (1..n) |->
                      IF n \in s THEN step[g[s \ {n}], queue[n]] ELSE g[s]]
  <2>1. \A s \in SUBSET (1..n) : n \notin s => s \in SUBSET (1..n - 1)
    OBVIOUS
  <2>2. \A s \in SUBSET (1..n) : s \ {n} \in SUBSET (1..n - 1)
    OBVIOUS
  <2>3. queue[n] \in E
    OBVIOUS
  <2>4. h \in [SUBSET (1..n) -> D]
    <3>1. \A s \in SUBSET (1..n) : h[s] \in D
      BY <1>1, <2>1, <2>2, <2>3
    <3>. QED  BY <3>1
  <2>5. ASSUME NEW s \in SUBSET (1..n)
        PROVE  h[s] = IF s = {} THEN base ELSE step[h[s \ {Max(s)}], queue[Max(s)]]
    <3>1. CASE n \in s
      <4>1. Max(s) = n /\ s # {}
        BY <3>1, Largest
      <4>2. h[s \ {n}] = g[s \ {n}]
        BY <2>2
      <4>. QED  BY <3>1, <4>1, <4>2
    <3>2. CASE n \notin s
      <4>1. s \in SUBSET (1..n - 1) /\ h[s] = g[s]
        BY <2>1, <3>2
      <4>2. CASE s = {}
        BY <1>1, <4>1, <4>2
      <4>3. CASE s # {}
        <5>1. s \ {Max(s)} \in SUBSET (1..n - 1) /\ s \ {Max(s)} \in SUBSET (1..n)
          BY <4>1
        <5>2. h[s \ {Max(s)}] = g[s \ {Max(s)}]
          BY <3>2, <5>1
        <5>. QED  BY <1>1, <4>1, <4>3, <5>2
      <4>. QED  BY <4>2, <4>3
    <3>. QED  BY <3>1, <3>2
  <2>. QED  BY <2>4, <2>5
<1>2. Solves([s \in {{}} |-> base], 0)
  <2>1. SUBSET (1..0) = {{}}
    OBVIOUS
  <2>. QED  BY <2>1
<1>. HIDE DEF Solves
<1>3. 0..Len(queue) \subseteq {n \in 0..Len(queue) : \E g : Solves(g, n)}
  <2>. DEFINE Good == {n \in 0..Len(queue) : \E g : Solves(g, n)}
  <2>1. Len(queue) \in Nat /\ 0 \in Good
    BY <1>2
  <2>2. \A n \in 1..Len(queue) : n - 1 \in Good => n \in Good
    BY <1>1
  <2>. HIDE DEF Good
  <2>3. 0..Len(queue) \subseteq Good
    BY <2>1, <2>2, UpTo
  <2>. QED  BY <2>3 DEF Good
<1>4. PICK g : Solves(g, Len(queue))
  <2>1. Len(queue) \in 0..Len(queue)
    OBVIOUS
  <2>. QED  BY <1>3, <2>1
<1>. QED  BY <1>4 DEF Solves, Folded

\* A deletion goes through the rows one by one.
LEMMA RetainStep ==
  ASSUME NEW id, NEW pw \in Seq(Row)
  PROVE  \E f \in [0..Len(pw) -> Seq(Row)] :
           /\ f[0] = <<>>
           /\ \A n \in 1..Len(pw) :
                f[n] = IF pw[n].id = id THEN f[n - 1] ELSE Append(f[n - 1], pw[n])
           /\ Retain(pw, id) = f[Len(pw)]
<1>. DEFINE One(kept, row) == IF row.id = id THEN kept ELSE Append(kept, row)
            step == [x \in Seq(Row) \X Row |-> One(x[1], x[2])]
            subsets == SUBSET (1..Len(pw))
            Equation(g) ==
              g = [s \in SUBSET (DOMAIN pw) |->
                     IF s = {} THEN <<>> ELSE One(g[s \ {Max(s)}], pw[Max(s)])]
            iter == CHOOSE g : Equation(g)
<1>1. Retain(pw, id) = iter[DOMAIN pw]
  BY DEF Retain, FoldLeft, MapThenFoldSet
<1>2. \E g : Equation(g)
  <2>0. PICK D : D = Seq(Row)
    OBVIOUS
  <2>1. step \in [D \X Row -> D]
    BY <2>0
  <2>2. <<>> \in D
    BY <2>0
  <2>. HIDE DEF step, One
  <2>3. PICK g \in [subsets -> Seq(Row)] :
          \A s \in subsets : g[s] = IF s = {} THEN <<>> ELSE step[g[s \ {Max(s)}], pw[Max(s)]]
    <3>1. Foldable(D, Row, step, <<>>, pw)
      BY <2>1, <2>2 DEF Foldable
    <3>2. PICK g : Folded(g, D, step, <<>>, pw)
      BY <3>1, FoldExists
    <3>. QED  BY <2>0, <3>2 DEF Folded
  <2>4. ASSUME NEW s \in subsets, s # {}
        PROVE  g[s] = One(g[s \ {Max(s)}], pw[Max(s)])
    <3>0. Len(pw) \in Nat
      OBVIOUS
    <3>1. Max(s) \in 1..Len(pw) /\ s \ {Max(s)} \in subsets
      BY <2>4, <3>0, Largest
    <3>2. pw[Max(s)] \in Row /\ g[s \ {Max(s)}] \in Seq(Row)
      BY <3>1
    <3>3. step[g[s \ {Max(s)}], pw[Max(s)]] = One(g[s \ {Max(s)}], pw[Max(s)])
      BY <3>2 DEF step
    <3>. QED  BY <2>3, <2>4, <3>3
  <2>5. DOMAIN pw = 1..Len(pw)
    OBVIOUS
  <2>. HIDE DEF One
  <2>. QED  BY <2>3, <2>4, <2>5
<1>3. Equation(iter)
  <2>. HIDE DEF Equation
  <2>. QED  BY <1>2
<1>. HIDE DEF iter
<1>. DEFINE f == [n \in 0..Len(pw) |-> iter[1..n]]
<1>4. f[0] = <<>>
  BY <1>3
<1>5. ASSUME NEW n \in 1..Len(pw)
      PROVE  f[n] = One(f[n - 1], pw[n])
  <2>1. Max(1..n) = n /\ (1..n) \ {n} = 1..n - 1 /\ 1..n # {}
    BY Initial
  <2>2. 1..n \in SUBSET (DOMAIN pw) /\ n - 1 \in 0..Len(pw)
    OBVIOUS
  <2>3. iter[1..n] = One(iter[1..n - 1], pw[n])
    BY <1>3, <2>1, <2>2
  <2>. QED  BY <2>2, <2>3
<1>6. f \in [0..Len(pw) -> Seq(Row)]
  <2>. DEFINE Typed == {n \in 0..Len(pw) : f[n] \in Seq(Row)}
  <2>. HIDE DEF f
  <2>1. Len(pw) \in Nat /\ 0 \in Typed
    <3>1. Len(pw) \in Nat /\ 0 \in 0..Len(pw) /\ <<>> \in Seq(Row)
      OBVIOUS
    <3>. QED  BY <1>4, <3>1
  <2>2. ASSUME NEW n \in 1..Len(pw), n - 1 \in Typed
        PROVE  n \in Typed
    <3>1. f[n - 1] \in Seq(Row) /\ pw[n] \in Row /\ n \in 0..Len(pw)
      BY <2>2
    <3>2. One(f[n - 1], pw[n]) \in Seq(Row)
      BY <3>1
    <3>. QED  BY <1>5, <3>1, <3>2
  <2>. HIDE DEF Typed
  <2>3. 0..Len(pw) \subseteq Typed
    BY <2>1, <2>2, UpTo
  <2>4. f = [n \in 0..Len(pw) |-> f[n]]
    BY DEF f
  <2>. QED  BY <2>3, <2>4 DEF Typed
<1>7. Retain(pw, id) = f[Len(pw)]
  <2>1. DOMAIN pw = 1..Len(pw) /\ Len(pw) \in 0..Len(pw)
    OBVIOUS
  <2>. QED  BY <1>1, <2>1
<1>. HIDE DEF f
<1>. QED  BY <1>4, <1>5, <1>6, <1>7

\* What a sequence holds with an element more at its end.
LEMMA RangeAppend ==
  ASSUME NEW S, NEW s \in Seq(S), NEW e
  PROVE  Range(Append(s, e)) = Range(s) \cup {e}
<1>1. /\ DOMAIN s = 1..Len(s) /\ DOMAIN Append(s, e) = 1..Len(s) + 1 /\ Len(s) \in Nat
      /\ \A k \in 1..Len(s) : Append(s, e)[k] = s[k]
      /\ Append(s, e)[Len(s) + 1] = e
  OBVIOUS
<1>2. ASSUME NEW k \in 1..Len(s) + 1  PROVE k \in 1..Len(s) \/ k = Len(s) + 1
  BY <1>1
<1>3. Range(Append(s, e)) \subseteq Range(s) \cup {e}
  BY <1>1, <1>2 DEF Range
<1>4. Range(s) \subseteq Range(Append(s, e))
  BY <1>1 DEF Range
<1>5. e \in Range(Append(s, e))
  <2>1. Len(s) + 1 \in 1..Len(s) + 1
    BY <1>1
  <2>. QED  BY <1>1, <2>1 DEF Range
<1>. QED  BY <1>3, <1>4, <1>5

\* A deletion leaves the rows of another id.
LEMMA Retained ==
  ASSUME NEW id, NEW pw \in Seq(Row)
  PROVE  /\ Retain(pw, id) \in Seq(Row)
         /\ Range(Retain(pw, id)) = {row \in Range(pw) : row.id # id}
<1>1. PICK f \in [0..Len(pw) -> Seq(Row)] :
        /\ f[0] = <<>>
        /\ \A n \in 1..Len(pw) :
             f[n] = IF pw[n].id = id THEN f[n - 1] ELSE Append(f[n - 1], pw[n])
        /\ Retain(pw, id) = f[Len(pw)]
  BY RetainStep
<1>2. Len(pw) \in Nat /\ DOMAIN pw = 1..Len(pw) /\ Len(pw) \in 0..Len(pw)
  OBVIOUS
<1>. DEFINE Kept(n) == {pw[k] : k \in {m \in 1..n : pw[m].id # id}}
            Good == {n \in 0..Len(pw) : Range(f[n]) = Kept(n)}
<1>3. 0 \in Good
  BY <1>1, <1>2 DEF Range
<1>4. ASSUME NEW n \in 1..Len(pw), n - 1 \in Good
      PROVE  n \in Good
  <2>1. n - 1 \in 0..Len(pw) /\ 1..n = (1..n - 1) \cup {n} /\ f[n - 1] \in Seq(Row)
        /\ n \in 0..Len(pw)
    OBVIOUS
  <2>2. CASE pw[n].id = id
    <3>1. Kept(n) = Kept(n - 1)
      BY <2>1, <2>2
    <3>. QED  BY <1>1, <1>4, <2>1, <2>2, <3>1
  <2>3. CASE pw[n].id # id
    <3>1. Kept(n) = Kept(n - 1) \cup {pw[n]}
      BY <2>1, <2>3
    <3>2. Range(f[n]) = Range(f[n - 1]) \cup {pw[n]}
      BY <1>1, <2>1, <2>3, RangeAppend
    <3>. QED  BY <1>4, <2>1, <3>1, <3>2
  <2>. QED  BY <2>2, <2>3
<1>5. Len(pw) \in Good
  <2>. HIDE DEF Good
  <2>. QED  BY <1>2, <1>3, <1>4, UpTo
<1>6. Kept(Len(pw)) = {row \in Range(pw) : row.id # id}
  BY <1>2 DEF Range
<1>. QED  BY <1>1, <1>2, <1>5, <1>6

\* What a change holds, by its kind.
LEMMA Changes ==
  ASSUME NEW op \in Op
  PROVE  /\ op.op \in {"edit", "new", "delete", "unmark"}
         /\ op.op \in {"edit", "delete"} => op.id \in LoginKey
         /\ op.op = "edit" => /\ op.user \in Users /\ op.pass \in Passwords
                              /\ op.title \in Titles \cup {NoTitle}
         /\ op.op = "new" => /\ op.site \in Websites /\ op.user \in Users
                             /\ op.pass \in Passwords /\ op.title \in Titles
         /\ op.op = "unmark" => op.guid \in Bookmarks
  BY DEF Op

\* The overlay keeps rows rows.
LEMMA OverlayTypes ==
  ASSUME NEW pw \in Seq(Row), NEW op \in Op
  PROVE  OverlayOne(pw, op) \in Seq(Row)
<1>1. CASE op.op = "edit"
  <2>1. ASSUME NEW row \in Row  PROVE Patched(row, op) \in Row
    BY <1>1, Changes DEF Patched, Row
  <2>2. OverlayOne(pw, op) = [n \in 1..Len(pw) |-> Patched(pw[n], op)]
    BY <1>1 DEF OverlayOne
  <2>3. OverlayOne(pw, op) \in [1..Len(pw) -> Row] /\ Len(pw) \in Nat
    BY <2>1, <2>2
  <2>. QED  BY <2>3
<1>2. CASE op.op = "new"
  <2>. DEFINE row == RowOf([site |-> op.site, user |-> op.user,
                            title |-> op.title, pass |-> op.pass])
  <2>1. row \in Row
    BY <1>2, Changes DEF RowOf, KeyOf, Row, LoginKey
  <2>2. OverlayOne(pw, op) = <<row>> \o pw
    BY <1>2 DEF OverlayOne
  <2>. HIDE DEF row
  <2>. QED  BY <2>1, <2>2
<1>3. CASE op.op = "delete"
  BY <1>3, Retained DEF OverlayOne
<1>4. CASE op.op = "unmark"
  BY <1>4 DEF OverlayOne
<1>. QED  BY <1>1, <1>2, <1>3, <1>4, Changes

\* The overlay is made change by change.
LEMMA OverlaySteps ==
  ASSUME NEW pw \in Seq(Row), NEW queue \in Seq(Op)
  PROVE  \E f \in [0..Len(queue) -> Seq(Row)] :
           /\ f[0] = pw
           /\ \A n \in 1..Len(queue) : f[n] = OverlayOne(f[n - 1], queue[n])
           /\ FoldLeft(OverlayOne, pw, queue) = f[Len(queue)]
<1>. DEFINE step == [x \in Seq(Row) \X Op |-> OverlayOne(x[1], x[2])]
            subsets == SUBSET (1..Len(queue))
            Equation(g) ==
              g = [s \in SUBSET (DOMAIN queue) |->
                     IF s = {} THEN pw ELSE OverlayOne(g[s \ {Max(s)}], queue[Max(s)])]
            iter == CHOOSE g : Equation(g)
<1>1. FoldLeft(OverlayOne, pw, queue) = iter[DOMAIN queue]
  BY DEF FoldLeft, MapThenFoldSet
<1>2. \E g : Equation(g)
  <2>0. PICK D : D = Seq(Row)
    OBVIOUS
  <2>1. step \in [D \X Op -> D]
    BY <2>0, OverlayTypes
  <2>2. pw \in D
    BY <2>0
  <2>. HIDE DEF step
  <2>3. PICK g \in [subsets -> Seq(Row)] :
          \A s \in subsets : g[s] = IF s = {} THEN pw ELSE step[g[s \ {Max(s)}], queue[Max(s)]]
    <3>1. Foldable(D, Op, step, pw, queue)
      BY <2>1, <2>2 DEF Foldable
    <3>2. PICK g : Folded(g, D, step, pw, queue)
      BY <3>1, FoldExists
    <3>. QED  BY <2>0, <3>2 DEF Folded
  <2>4. ASSUME NEW s \in subsets, s # {}
        PROVE  g[s] = OverlayOne(g[s \ {Max(s)}], queue[Max(s)])
    <3>0. Len(queue) \in Nat
      OBVIOUS
    <3>1. Max(s) \in 1..Len(queue) /\ s \ {Max(s)} \in subsets
      BY <2>4, <3>0, Largest
    <3>2. queue[Max(s)] \in Op /\ g[s \ {Max(s)}] \in Seq(Row)
      BY <3>1
    <3>3. step[g[s \ {Max(s)}], queue[Max(s)]] = OverlayOne(g[s \ {Max(s)}], queue[Max(s)])
      BY <3>2 DEF step
    <3>. QED  BY <2>3, <2>4, <3>3
  <2>5. DOMAIN queue = 1..Len(queue)
    OBVIOUS
  <2>. QED  BY <2>3, <2>4, <2>5
<1>3. Equation(iter)
  <2>. HIDE DEF Equation
  <2>. QED  BY <1>2
<1>. HIDE DEF iter
<1>. DEFINE f == [n \in 0..Len(queue) |-> iter[1..n]]
<1>4. f[0] = pw
  BY <1>3
<1>5. ASSUME NEW n \in 1..Len(queue)
      PROVE  f[n] = OverlayOne(f[n - 1], queue[n])
  <2>1. Max(1..n) = n /\ (1..n) \ {n} = 1..n - 1 /\ 1..n # {}
    BY Initial
  <2>2. 1..n \in SUBSET (DOMAIN queue) /\ n - 1 \in 0..Len(queue)
    OBVIOUS
  <2>3. iter[1..n] = OverlayOne(iter[1..n - 1], queue[n])
    BY <1>3, <2>1, <2>2
  <2>. QED  BY <2>2, <2>3
<1>6. f \in [0..Len(queue) -> Seq(Row)]
  <2>. DEFINE Typed == {n \in 0..Len(queue) : f[n] \in Seq(Row)}
  <2>. HIDE DEF f
  <2>1. Len(queue) \in Nat /\ 0 \in Typed
    <3>1. Len(queue) \in Nat /\ 0 \in 0..Len(queue)
      OBVIOUS
    <3>. QED  BY <1>4, <3>1
  <2>2. ASSUME NEW n \in 1..Len(queue), n - 1 \in Typed
        PROVE  n \in Typed
    <3>1. f[n - 1] \in Seq(Row) /\ queue[n] \in Op /\ n \in 0..Len(queue)
      BY <2>2
    <3>2. OverlayOne(f[n - 1], queue[n]) \in Seq(Row)
      BY <3>1, OverlayTypes
    <3>. QED  BY <1>5, <3>1, <3>2
  <2>. HIDE DEF Typed
  <2>3. 0..Len(queue) \subseteq Typed
    BY <2>1, <2>2, UpTo
  <2>4. f = [n \in 0..Len(queue) |-> f[n]]
    BY DEF f
  <2>. QED  BY <2>3, <2>4 DEF Typed
<1>7. FoldLeft(OverlayOne, pw, queue) = f[Len(queue)]
  <2>1. DOMAIN queue = 1..Len(queue) /\ Len(queue) \in 0..Len(queue)
    OBVIOUS
  <2>. QED  BY <1>1, <2>1
<1>. HIDE DEF f
<1>. QED  BY <1>4, <1>5, <1>6, <1>7

\* Nothing that waits changes nothing.
LEMMA NoOverlay == ASSUME NEW pw \in Seq(Row) PROVE FoldLeft(OverlayOne, pw, <<>>) = pw
<1>. PICK queue : queue = <<>>
  OBVIOUS
<1>1. queue \in Seq(Op) /\ Len(queue) = 0
  OBVIOUS
<1>2. PICK f \in [0..Len(queue) -> Seq(Row)] :
        /\ f[0] = pw
        /\ \A n \in 1..Len(queue) : f[n] = OverlayOne(f[n - 1], queue[n])
        /\ FoldLeft(OverlayOne, pw, queue) = f[Len(queue)]
  BY <1>1, OverlaySteps
<1>. QED  BY <1>1, <1>2
-----------------------------------------------------------------------------
(* What is foreseen, and what the commits give. *)

\* What is seen of a row or a login, but for the flag.
Face(row) ==
  [site |-> RealmShown(row.site), user |-> row.user, title |-> row.title, pass |-> row.pass]
Faces(pw) == {Face(row) : row \in Range(pw)}
FaceType ==
  [site : Realms, user : Users, title : Titles \cup {NoTitle}, pass : Passwords,
   conflict : BOOLEAN]

\* The rows of the chain with the first changes of a queue.
ChainRows(chain) == Flagged([n \in DOMAIN chain |-> RowOf(chain[n])])
Ahead(chain, queue) == FoldLeft(OverlayOne, ChainRows(chain), queue)

\* What a list may show: what it flags as mismatched it has twice.
Pictured(seen) ==
  /\ seen \in [pw : SUBSET FaceType, bm : SUBSET Bookmarks]
  /\ \A r \in seen.pw : r.conflict =>
       \E s \in seen.pw : s.site = r.site /\ s.user = r.user /\ s.pass # r.pass
AsAhead(seen, chain, bm, queue) ==
  /\ {Face(r) : r \in seen.pw} = Faces(Ahead(chain, queue))
  /\ seen.bm = bm \ Unmarked(queue)

\* A commit under way is of the login that its change names, if it names one.
Named(op) == op.op \in {"edit", "delete"}
OfItsLogin(n) == commits[n].stage = "fetched" =>
  /\ outbox[n].op # "new"
  /\ Named(outbox[n]) =>
       commits[n].target \in Login /\ KeyOf(commits[n].target) = outbox[n].id
OverlayTypeInv == OverlayTypeOK /\ \A n \in DOMAIN outbox : OfItsLogin(n)

\* The two parts of Plain that stay: what is said of the outbox alone, and of a
\* commit under way.
Steady(n) ==
  /\ outbox[n].op = "edit" => outbox[n].title # NoTitle
  /\ outbox[n].op = "new" => RealmShown(outbox[n].site) = RealmOf[outbox[n].site]
  /\ \A m \in DOMAIN outbox \ {n} : Touched(outbox[m]) \cap Touched(outbox[n]) = {}
Current(n) ==
  Named(outbox[n]) /\ commits[n].stage = "fetched" => commits[n].target \in Range(logins)

\* The changes that are not done, and what will be seen once they are: of the
\* logins that none of them names, and of those they make.
Waiting == {outbox[n] : n \in {m \in DOMAIN outbox : commits[m].stage # "answered"}}
Makes(op) == op.op \in {"edit", "new"}
MadeFace(op) ==
  [site |-> MadeKey(op)[1], user |-> op.user, title |-> op.title, pass |-> op.pass]
Unnamed(chain, ops) ==
  {login \in chain : \A op \in ops : Named(op) => op.id # KeyOf(login)}
Expected(chain, ops) ==
  {Face(login) : login \in Unnamed(chain, ops)} \cup {MadeFace(op) : op \in {o \in ops : Makes(o)}}
UnmarkedBy(ops) == {op.guid : op \in {o \in ops : o.op = "unmark"}}

\* The forecast is what will be seen, and no commit that is under way comes late.
Foreseen ==
  forecast # None =>
    /\ Pictured(forecast) /\ DistinctKeys(logins)
    /\ \A n \in DOMAIN outbox : Steady(n) /\ Current(n)
    /\ {Face(r) : r \in forecast.pw} = Expected(Range(logins), Waiting)
    /\ forecast.bm = marks \ UnmarkedBy(Waiting)

\* A sequence without the element at a position.
LEMMA Removed ==
  ASSUME NEW S, NEW s \in Seq(S), NEW i \in 1..Len(s)
  PROVE  /\ RemoveAt(s, i) \in Seq(S) /\ Len(RemoveAt(s, i)) = Len(s) - 1
         /\ \A k \in 1..Len(s) - 1 :
              RemoveAt(s, i)[k] = IF k < i THEN s[k] ELSE s[k + 1]
<1>. DEFINE before == SubSeq(s, 1, i - 1)
            after == SubSeq(s, i + 1, Len(s))
<1>1. /\ Len(s) \in Nat /\ i \in Nat /\ i <= Len(s) /\ i >= 1
  OBVIOUS
<1>2. /\ before \in Seq(S) /\ Len(before) = i - 1
      /\ \A k \in 1..i - 1 : before[k] = s[k]
  BY <1>1
<1>3. /\ after \in Seq(S) /\ Len(after) = Len(s) - i
      /\ \A k \in 1..Len(s) - i : after[k] = s[k + i]
  BY <1>1
<1>4. RemoveAt(s, i) = before \o after
  BY DEF RemoveAt
<1>. HIDE DEF before, after
<1>5. /\ before \o after \in Seq(S) /\ Len(before \o after) = Len(before) + Len(after)
      /\ \A k \in 1..Len(before) : (before \o after)[k] = before[k]
      /\ \A k \in 1..Len(after) : (before \o after)[k + Len(before)] = after[k]
  <2>0. before \in Seq(S) /\ after \in Seq(S)
    BY <1>2, <1>3
  <2>1. before \o after \in Seq(S)
    BY <2>0
  <2>2. Len(before \o after) = Len(before) + Len(after)
    BY <2>0
  <2>3. \A k \in 1..Len(before) : (before \o after)[k] = before[k]
    BY <2>0
  <2>4. ASSUME NEW k \in 1..Len(after)
        PROVE  (before \o after)[k + Len(before)] = after[k]
    BY <2>0
  <2>. QED  BY <2>1, <2>2, <2>3, <2>4
<1>6. ASSUME NEW k \in 1..Len(s) - 1
      PROVE  (before \o after)[k] = IF k < i THEN s[k] ELSE s[k + 1]
  <2>1. CASE k < i
    BY <1>1, <1>2, <1>5, <2>1
  <2>2. CASE k >= i
    <3>1. PICK j \in 1..Len(s) - i : k = j + (i - 1)
      BY <1>1, <2>2
    <3>2. j \in 1..Len(after) /\ k = j + Len(before) /\ j + i = k + 1 /\ ~(k < i)
      BY <1>1, <1>2, <1>3, <2>2, <3>1
    <3>3. (before \o after)[j + Len(before)] = after[j]
      BY <1>5, <3>2
    <3>4. after[j] = s[j + i]
      BY <1>3, <3>1
    <3>. QED  BY <3>2, <3>3, <3>4
  <2>3. k < i \/ k >= i
    BY <1>1
  <2>. QED  BY <2>1, <2>2, <2>3
<1>7. Len(before \o after) = Len(s) - 1
  BY <1>1, <1>2, <1>3, <1>5
<1>. QED  BY <1>4, <1>5, <1>6, <1>7

\* The rows of logins are rows, with flags or without.
LEMMA FlaggedTypes ==
  ASSUME NEW pw \in Seq(Row)
  PROVE  /\ Flagged(pw) \in Seq(Row) /\ DOMAIN Flagged(pw) = DOMAIN pw
         /\ \A n \in DOMAIN pw :
              /\ Flagged(pw)[n].id = pw[n].id /\ Flagged(pw)[n].site = pw[n].site
              /\ Flagged(pw)[n].user = pw[n].user /\ Flagged(pw)[n].title = pw[n].title
              /\ Flagged(pw)[n].pass = pw[n].pass
<1>1. PICK made : made = Flagged(pw)
  OBVIOUS
<1>2. DOMAIN pw = 1..Len(pw) /\ Len(pw) \in Nat
  OBVIOUS
<1>3. DOMAIN made = 1..Len(pw) /\ made = [n \in 1..Len(pw) |-> made[n]]
  BY <1>1, <1>2 DEF Flagged
<1>4. ASSUME NEW n \in 1..Len(pw)
      PROVE  /\ made[n] \in Row
             /\ made[n].id = pw[n].id /\ made[n].site = pw[n].site
             /\ made[n].user = pw[n].user /\ made[n].title = pw[n].title
             /\ made[n].pass = pw[n].pass
  <2>1. pw[n] \in Row
    BY <1>2
  <2>2. \E x, y \in BOOLEAN :
          made[n] = [id |-> pw[n].id, site |-> pw[n].site, user |-> pw[n].user,
                     title |-> pw[n].title, pass |-> pw[n].pass, reused |-> x,
                     conflict |-> y]
    BY <1>1, <1>2 DEF Flagged
  <2>. QED  BY <2>1, <2>2 DEF Row
<1>5. made \in Seq(Row)
  BY <1>2, <1>3, <1>4
<1>. QED  BY <1>1, <1>2, <1>3, <1>4, <1>5

\* The rows of a chain are rows, each of its login.
LEMMA ChainTypes ==
  ASSUME NEW chain \in Seq(Login)
  PROVE  /\ [n \in DOMAIN chain |-> RowOf(chain[n])] \in Seq(Row)
         /\ ChainRows(chain) \in Seq(Row)
         /\ DOMAIN ChainRows(chain) = DOMAIN chain
         /\ \A n \in DOMAIN chain :
              /\ ChainRows(chain)[n].id = KeyOf(chain[n])
              /\ ChainRows(chain)[n].site = chain[n].site
              /\ ChainRows(chain)[n].user = chain[n].user
              /\ ChainRows(chain)[n].title = chain[n].title
              /\ ChainRows(chain)[n].pass = chain[n].pass
<1>. DEFINE made == [n \in DOMAIN chain |-> RowOf(chain[n])]
<1>1. DOMAIN chain = 1..Len(chain) /\ Len(chain) \in Nat
  OBVIOUS
<1>2. ASSUME NEW n \in 1..Len(chain)  PROVE RowOf(chain[n]) \in Row
  <2>1. chain[n] \in Login
    OBVIOUS
  <2>. QED  BY <2>1 DEF RowOf, KeyOf, Row, Login, LoginKey
<1>3. made \in Seq(Row)
  BY <1>1, <1>2
<1>4. \A n \in DOMAIN chain :
        /\ made[n].id = KeyOf(chain[n]) /\ made[n].site = chain[n].site
        /\ made[n].user = chain[n].user /\ made[n].title = chain[n].title
        /\ made[n].pass = chain[n].pass
  BY DEF RowOf
<1>5. DOMAIN made = DOMAIN chain
  OBVIOUS
<1>6. ChainRows(chain) = Flagged(made)
  BY DEF ChainRows
<1>. HIDE DEF made
<1>7. /\ Flagged(made) \in Seq(Row) /\ DOMAIN Flagged(made) = DOMAIN made
      /\ \A n \in DOMAIN made :
           /\ Flagged(made)[n].id = made[n].id /\ Flagged(made)[n].site = made[n].site
           /\ Flagged(made)[n].user = made[n].user /\ Flagged(made)[n].title = made[n].title
           /\ Flagged(made)[n].pass = made[n].pass
  BY <1>3, FlaggedTypes
<1>8. made \in Seq(Row) /\ Flagged(made) \in Seq(Row) /\ DOMAIN Flagged(made) = DOMAIN chain
  BY <1>3, <1>5, <1>7
<1>9. \A n \in DOMAIN chain :
        /\ Flagged(made)[n].id = KeyOf(chain[n]) /\ Flagged(made)[n].site = chain[n].site
        /\ Flagged(made)[n].user = chain[n].user /\ Flagged(made)[n].title = chain[n].title
        /\ Flagged(made)[n].pass = chain[n].pass
  BY <1>4, <1>5, <1>7
<1>. QED  BY <1>6, <1>8, <1>9 DEF made

\* ... and stay rows under the overlay.
LEMMA AheadTypes ==
  ASSUME NEW pw \in Seq(Row), NEW queue \in Seq(Op)
  PROVE  FoldLeft(OverlayOne, pw, queue) \in Seq(Row)
<1>1. PICK f \in [0..Len(queue) -> Seq(Row)] : FoldLeft(OverlayOne, pw, queue) = f[Len(queue)]
  BY OverlaySteps
<1>2. Len(queue) \in 0..Len(queue)
  OBVIOUS
<1>. QED  BY <1>1, <1>2

\* The rows that are made of a chain and a queue.
MadeOf(made, chain, bm, queue) ==
  /\ made = Rebuilt([logins |-> chain, marks |-> bm], queue)
  /\ chain \in Seq(Login) /\ bm \subseteq Bookmarks /\ queue \in Seq(Op)

LEMMA RebuiltTypes ==
  ASSUME NEW made, NEW chain, NEW bm, NEW queue, MadeOf(made, chain, bm, queue)
  PROVE  /\ made.pw \in Seq(Row) /\ made.bm \subseteq Bookmarks /\ made.dup \subseteq made.bm
         /\ queue = <<>> => made.bm = bm /\ made.pw = ChainRows(chain)
         /\ queue # <<>> => made.bm = bm \ Unmarked(queue)
                             /\ made.pw = Flagged(Ahead(chain, queue))
<1>. USE DEF MadeOf
<1>1. ChainRows(chain) \in Seq(Row)
  BY ChainTypes
<1>2. Ahead(chain, queue) \in Seq(Row)
  BY <1>1, AheadTypes DEF Ahead
<1>3. Flagged(Ahead(chain, queue)) \in Seq(Row)
  BY <1>2, FlaggedTypes
<1>4. Duplicates(bm) \subseteq bm
  BY DEF Duplicates
<1>5. made = Overlaid([pw |-> ChainRows(chain), bm |-> bm, dup |-> Duplicates(bm)], queue)
  BY DEF Rebuilt, ChainRows
<1>6. CASE queue = <<>>
  BY <1>1, <1>4, <1>5, <1>6 DEF Overlaid
<1>7. CASE queue # <<>>
  BY <1>3, <1>4, <1>5, <1>7 DEF Overlaid, Ahead
<1>. QED  BY <1>6, <1>7

\* The login a change finds.
LEMMA FirstFound ==
  ASSUME NEW key, logins \in Seq(Login), Positions(key) # {}
  PROVE  First(key) \in DOMAIN logins /\ KeyOf(logins[First(key)]) = key
<1>1. Positions(key) \in SUBSET Nat
  BY DEF Positions
<1>2. \E n \in Positions(key) : \A m \in Positions(key) : n <= m
  BY <1>1, Least
<1>3. First(key) \in Positions(key)
  BY <1>2 DEF First
<1>. QED  BY <1>3 DEF Positions

\* What a sequence holds with an element more at its start.
LEMMA RangePrepend ==
  ASSUME NEW S, NEW e \in S, NEW s \in Seq(S)
  PROVE  Range(<<e>> \o s) = {e} \cup Range(s)
<1>1. <<e>> \in Seq(S) /\ Len(<<e>>) = 1 /\ <<e>>[1] = e
  OBVIOUS
<1>. DEFINE both == <<e>> \o s
<1>2. /\ DOMAIN both = 1..Len(s) + 1 /\ DOMAIN s = 1..Len(s) /\ Len(s) \in Nat
      /\ both[1] = e /\ \A k \in 1..Len(s) : both[k + 1] = s[k]
  BY <1>1
<1>. HIDE DEF both
<1>3. Range(both) \subseteq {e} \cup Range(s)
  <2>. SUFFICES ASSUME NEW n \in 1..Len(s) + 1  PROVE both[n] \in {e} \cup Range(s)
    BY <1>2 DEF Range
  <2>1. CASE n = 1
    BY <1>2, <2>1
  <2>2. CASE n # 1
    <3>1. Len(s) \in Nat
      BY <1>2
    <3>2. n - 1 \in 1..Len(s) /\ n = (n - 1) + 1
      BY <2>2, <3>1
    <3>3. both[n] = s[n - 1] /\ n - 1 \in DOMAIN s
      BY <1>2, <3>2
    <3>. QED  BY <3>3 DEF Range
  <2>. QED  BY <2>1, <2>2
<1>4. e \in Range(both)
  <2>1. 1 \in 1..Len(s) + 1
    BY <1>2
  <2>. QED  BY <1>2, <2>1 DEF Range
<1>5. Range(s) \subseteq Range(both)
  <2>. SUFFICES ASSUME NEW k \in 1..Len(s)  PROVE s[k] \in Range(both)
    BY <1>2 DEF Range
  <2>1. k + 1 \in 1..Len(s) + 1
    BY <1>2
  <2>. QED  BY <1>2, <2>1 DEF Range
<1>. QED  BY <1>3, <1>4, <1>5 DEF both

\* What is shown as a site is a realm, and a realm is shown as it is.
LEMMA RealmsShown ==
  /\ \A site \in Realms : RealmShown(site) = site
  /\ \A site \in Realms \cup Websites : RealmShown(site) \in Realms
  /\ \A site \in Websites : RealmOf[site] \in Realms
BY OverlayAssumption DEF RealmShown, Websites

\* The row of one login.
LEMMA ChainRow ==
  ASSUME NEW chain \in Seq(Login), NEW n \in DOMAIN chain
  PROVE  /\ n \in DOMAIN ChainRows(chain) /\ ChainRows(chain)[n] \in Row
         /\ ChainRows(chain)[n] \in Range(ChainRows(chain))
         /\ ChainRows(chain)[n].id = KeyOf(chain[n])
         /\ ChainRows(chain)[n].site = chain[n].site
         /\ ChainRows(chain)[n].user = chain[n].user
         /\ ChainRows(chain)[n].title = chain[n].title
         /\ ChainRows(chain)[n].pass = chain[n].pass
<1>1. /\ ChainRows(chain) \in Seq(Row) /\ DOMAIN ChainRows(chain) = DOMAIN chain
      /\ ChainRows(chain)[n].id = KeyOf(chain[n])
      /\ ChainRows(chain)[n].site = chain[n].site
      /\ ChainRows(chain)[n].user = chain[n].user
      /\ ChainRows(chain)[n].title = chain[n].title
      /\ ChainRows(chain)[n].pass = chain[n].pass
  BY ChainTypes
<1>2. ChainRows(chain)[n] \in Row
  BY <1>1
<1>3. ChainRows(chain)[n] \in Range(ChainRows(chain))
  BY <1>1 DEF Range
<1>. QED  BY <1>1, <1>2, <1>3

\* What a sync shows, as it is foreseen.
LEMMA ShownAsForeseen ==
  ASSUME NEW made, NEW chain, NEW bm, NEW queue, MadeOf(made, chain, bm, queue),
         NEW seen, seen = Seen(made)
  PROVE  Pictured(seen) /\ AsAhead(seen, chain, bm, queue)
<1>. PICK P : P = Ahead(chain, queue)
  OBVIOUS
<1>1. chain \in Seq(Login) /\ queue \in Seq(Op) /\ ChainRows(chain) \in Seq(Row)
  BY ChainTypes DEF MadeOf
<1>2. P \in Seq(Row)
  BY <1>1, AheadTypes DEF Ahead
<1>3. made.pw = Flagged(P) /\ made.bm = bm \ Unmarked(queue) /\ made.bm \subseteq Bookmarks
  <2>1. /\ made.bm \subseteq Bookmarks
        /\ queue = <<>> => made.bm = bm /\ made.pw = ChainRows(chain)
        /\ queue # <<>> => made.bm = bm \ Unmarked(queue)
                            /\ made.pw = Flagged(Ahead(chain, queue))
    BY RebuiltTypes
  <2>2. CASE queue = <<>>
    <3>1. Unmarked(queue) = {}
      BY <2>2 DEF Unmarked, Range
    <3>2. P = ChainRows(chain)
      BY <1>1, <2>2, NoOverlay DEF Ahead
    <3>3. Flagged(ChainRows(chain)) = ChainRows(chain)
      BY FlaggedTwice DEF ChainRows
    <3>. QED  BY <2>1, <2>2, <3>1, <3>2, <3>3
  <2>3. CASE queue # <<>>
    BY <2>1, <2>3
  <2>. QED  BY <2>2, <2>3
<1>. PICK F : F = Flagged(P)
  OBVIOUS
<1>4. /\ F \in Seq(Row) /\ DOMAIN F = DOMAIN P
      /\ \A n \in DOMAIN P : Face(F[n]) = Face(P[n])
  BY <1>2, FlaggedTypes DEF Face
<1>. DEFINE View(row) == [site |-> RealmShown(row.site), user |-> row.user, title |-> row.title,
                          pass |-> row.pass, conflict |-> row.conflict]
<1>5. seen = [pw |-> {View(row) : row \in Range(F)}, bm |-> made.bm]
  BY <1>3 DEF Seen
<1>6. ASSUME NEW row \in Row
      PROVE  View(row) \in FaceType /\ Face(View(row)) = Face(row)
  BY RealmsShown DEF FaceType, Row, Face
<1>7. \A n \in DOMAIN F : F[n] \in Row /\ F[n] \in Range(F)
  BY <1>4 DEF Range
<1>8. seen.pw \subseteq FaceType
  BY <1>5, <1>6, <1>7 DEF Range
<1>9. {Face(r) : r \in seen.pw} = {Face(row) : row \in Range(F)}
  <2>1. \A row \in Range(F) : Face(View(row)) = Face(row)
    BY <1>6, <1>7 DEF Range
  <2>. HIDE DEF View
  <2>. QED  BY <1>5, <2>1
<1>10. {Face(row) : row \in Range(F)} = Faces(P)
  BY <1>4 DEF Faces, Range
<1>11. ASSUME NEW r \in seen.pw, r.conflict
       PROVE  \E s \in seen.pw : s.site = r.site /\ s.user = r.user /\ s.pass # r.pass
  <2>1. PICK n \in DOMAIN F : r = View(F[n])
    BY <1>5 DEF Range
  <2>2. F[n].conflict
    BY <1>11, <2>1
  <2>3. PICK m \in DOMAIN P :
          P[m].site = P[n].site /\ P[m].user = P[n].user /\ P[m].pass # P[n].pass
    BY <1>4, <2>1, <2>2 DEF Flagged
  <2>4. /\ F[m].site = F[n].site /\ F[m].user = F[n].user /\ F[m].pass # F[n].pass
        /\ F[m] \in Range(F)
    BY <1>2, <1>4, <1>7, <2>1, <2>3, FlaggedTypes
  <2>5. View(F[m]) \in seen.pw
    BY <1>5, <2>4
  <2>. QED  BY <2>1, <2>4, <2>5
<1>12. Pictured(seen)
  BY <1>3, <1>5, <1>8, <1>11 DEF Pictured
<1>13. {Face(r) : r \in seen.pw} = Faces(Ahead(chain, queue))
  BY <1>9, <1>10
<1>14. seen.bm = bm \ Unmarked(queue)
  BY <1>3, <1>5
<1>. QED  BY <1>12, <1>13, <1>14 DEF AsAhead
-----------------------------------------------------------------------------
(* What a commit does. *)

\* The n-th commit is at another stage then, the others are as they were.
LEMMA Going ==
  ASSUME OverlayTypeOK, NEW n \in DOMAIN outbox,
         NEW stage \in {"queued", "fetched", "answered"}, NEW target \in Login \cup {None},
         Goes(n, stage, target)
  PROVE  /\ commits' \in Seq(Commit) /\ Len(commits') = Len(outbox) /\ n \in DOMAIN commits
         /\ commits'[n].stage = stage /\ commits'[n].target = target
         /\ \A m \in DOMAIN outbox : m # n => commits'[m] = commits[m]
<1>1. /\ commits \in Seq(Commit) /\ Len(commits) = Len(outbox) /\ outbox \in Seq(Op)
      /\ DOMAIN outbox = 1..Len(outbox) /\ DOMAIN commits = 1..Len(outbox)
  BY DEF OverlayTypeOK
<1>. DEFINE next == [stage |-> stage, target |-> target]
<1>2. next \in Commit
  BY DEF Commit
<1>3. commits' = [commits EXCEPT ![n] = next] /\ n \in DOMAIN commits
  BY <1>1 DEF Goes
<1>4. next.stage = stage /\ next.target = target
  OBVIOUS
<1>. HIDE DEF next
<1>5. commits' \in Seq(Commit) /\ Len(commits') = Len(outbox)
  BY <1>1, <1>2, <1>3
<1>6. commits'[n] = next /\ \A m \in DOMAIN outbox : m # n => commits'[m] = commits[m]
  BY <1>1, <1>3
<1>. QED  BY <1>3, <1>4, <1>5, <1>6

\* Where a change is in the outbox before the n-th is cleared.
At(n, m) == IF m < n THEN m ELSE m + 1

\* The changes that stay are those but one, in their order.
LEMMA Clearing ==
  ASSUME OverlayTypeOK, NEW n \in DOMAIN outbox,
         outbox' = RemoveAt(outbox, n), commits' = RemoveAt(commits, n)
  PROVE  /\ outbox' \in Seq(Op) /\ commits' \in Seq(Commit)
         /\ Len(outbox') = Len(outbox) - 1 /\ Len(commits') = Len(outbox')
         /\ \A m \in DOMAIN outbox' :
              /\ m \in Nat /\ At(n, m) \in DOMAIN outbox \ {n}
              /\ outbox'[m] = outbox[At(n, m)] /\ commits'[m] = commits[At(n, m)]
         /\ \A m \in DOMAIN outbox \ {n} : \E k \in DOMAIN outbox' : At(n, k) = m
<1>1. /\ commits \in Seq(Commit) /\ Len(commits) = Len(outbox) /\ outbox \in Seq(Op)
      /\ DOMAIN outbox = 1..Len(outbox) /\ n \in 1..Len(outbox) /\ n \in 1..Len(commits)
      /\ Len(outbox) \in Nat
  BY DEF OverlayTypeOK
<1>2. /\ outbox' \in Seq(Op) /\ Len(outbox') = Len(outbox) - 1
      /\ \A k \in 1..Len(outbox) - 1 :
           outbox'[k] = IF k < n THEN outbox[k] ELSE outbox[k + 1]
  BY <1>1, Removed
<1>3. /\ commits' \in Seq(Commit) /\ Len(commits') = Len(outbox) - 1
      /\ \A k \in 1..Len(outbox) - 1 :
           commits'[k] = IF k < n THEN commits[k] ELSE commits[k + 1]
  BY <1>1, Removed
<1>4. DOMAIN outbox' = 1..Len(outbox) - 1
  BY <1>1, <1>2
<1>5. ASSUME NEW m \in DOMAIN outbox'
      PROVE  /\ m \in Nat /\ At(n, m) \in DOMAIN outbox \ {n}
             /\ outbox'[m] = outbox[At(n, m)] /\ commits'[m] = commits[At(n, m)]
  <2>1. m \in 1..Len(outbox) - 1
    BY <1>4
  <2>2. m \in Nat /\ At(n, m) \in DOMAIN outbox \ {n}
    BY <1>1, <2>1 DEF At
  <2>. QED  BY <1>2, <1>3, <2>1, <2>2 DEF At
<1>6. ASSUME NEW m \in DOMAIN outbox \ {n}
      PROVE  \E k \in DOMAIN outbox' : At(n, k) = m
  <2>1. CASE m < n
    <3>1. m \in 1..Len(outbox) - 1
      BY <1>1, <2>1
    <3>. QED  BY <1>4, <2>1, <3>1 DEF At
  <2>2. CASE ~(m < n)
    <3>1. m - 1 \in 1..Len(outbox) - 1 /\ ~(m - 1 < n) /\ m - 1 + 1 = m
      BY <1>1, <2>2
    <3>. QED  BY <1>4, <3>1 DEF At
  <2>. QED  BY <2>1, <2>2
<1>. QED  BY <1>1, <1>2, <1>3, <1>5, <1>6

\* What the logins become when the server takes a commit.
LEMMA Taken ==
  ASSUME OverlayTypeInv, NEW n \in DOMAIN outbox, NEW op, op = outbox[n],
         Accepted(op, commits[n])
  PROVE  /\ op \in Op /\ logins' \in Seq(Login) /\ Len(logins') <= MaxLogins
         /\ marks' = IF op.op = "unmark" THEN marks \ {op.guid} ELSE marks
         /\ op.op = "new" => \E new \in Login : logins' = Append(logins, new)
              /\ KeyOf(new) = MadeKey(op) /\ Face(new) = MadeFace(op)
         /\ op.op = "edit" => \E i \in DOMAIN logins, new \in Login :
              /\ KeyOf(logins[i]) = op.id /\ logins' = [logins EXCEPT ![i] = new]
              /\ KeyOf(new) = MadeKey(op) /\ Face(new) = MadeFace(op)
         /\ op.op = "delete" => \E i \in DOMAIN logins :
              KeyOf(logins[i]) = op.id /\ logins' = RemoveAt(logins, i)
         /\ op.op = "unmark" => logins' = logins
<1>1. /\ op \in Op /\ logins \in Seq(Login) /\ Len(logins) <= MaxLogins /\ Len(logins) \in Nat
      /\ MaxLogins \in Nat
  BY OverlayAssumption DEF OverlayTypeInv, OverlayTypeOK
<1>2. CASE op.op = "new"
  <2>1. PICK v \in Versions : /\ logins' = Append(logins, NewLogin(op, v))
                              /\ Len(logins) < MaxLogins /\ marks' = marks
    BY <1>2 DEF Accepted
  <2>2. NewLogin(op, v) \in Login
    BY <1>1, <1>2, Changes, RealmsShown DEF NewLogin, Login
  <2>3. KeyOf(NewLogin(op, v)) = MadeKey(op)
    BY <1>2 DEF KeyOf, NewLogin, MadeKey
  <2>4. Face(NewLogin(op, v)) = MadeFace(op)
    <3>1. RealmShown(RealmOf[op.site]) = RealmOf[op.site] /\ MadeKey(op)[1] = RealmOf[op.site]
      BY <1>1, <1>2, Changes, RealmsShown DEF MadeKey
    <3>. QED  BY <3>1 DEF Face, NewLogin, MadeFace
  <2>5. logins' \in Seq(Login) /\ Len(logins') <= MaxLogins
    BY <1>1, <2>1, <2>2
  <2>. QED  BY <1>1, <1>2, <2>1, <2>2, <2>3, <2>4, <2>5
<1>3. CASE op.op = "edit"
  <2>1. PICK i \in DOMAIN logins, v \in Versions :
          /\ logins[i] = commits[n].target /\ commits[n].stage = "fetched"
          /\ logins' = [logins EXCEPT ![i] = Edited(commits[n].target, op, v)] /\ marks' = marks
    BY <1>3 DEF Accepted
  <2>2. KeyOf(logins[i]) = op.id /\ logins[i] \in Login
    BY <1>1, <1>3, <2>1 DEF OverlayTypeInv, OfItsLogin, Named
  <2>. DEFINE new == Edited(logins[i], op, v)
  <2>3. /\ new \in Login /\ new.site = logins[i].site /\ new.user = op.user
        /\ new.title = op.title /\ new.pass = op.pass
    BY <1>1, <1>3, <2>2, Changes DEF Edited, Login
  <2>4. op.id = <<logins[i].site, logins[i].user>> /\ logins[i].site \in Realms
    BY <2>2 DEF KeyOf, Login
  <2>5. MadeKey(op) = <<logins[i].site, op.user>> /\ MadeKey(op)[1] = logins[i].site
    BY <1>3, <2>4 DEF MadeKey
  <2>6. logins' = [logins EXCEPT ![i] = new]
    BY <2>1
  <2>. HIDE DEF new
  <2>7. KeyOf(new) = MadeKey(op)
    BY <2>3, <2>5 DEF KeyOf
  <2>8. Face(new) = MadeFace(op)
    BY <2>3, <2>4, <2>5, RealmsShown DEF Face, MadeFace
  <2>9. logins' \in Seq(Login) /\ Len(logins') <= MaxLogins
    BY <1>1, <2>3, <2>6
  <2>. QED  BY <1>1, <1>3, <2>1, <2>2, <2>3, <2>6, <2>7, <2>8, <2>9
<1>4. CASE op.op = "delete"
  <2>1. PICK i \in DOMAIN logins :
          /\ logins[i] = commits[n].target /\ commits[n].stage = "fetched"
          /\ logins' = RemoveAt(logins, i) /\ marks' = marks
    BY <1>4 DEF Accepted
  <2>2. KeyOf(logins[i]) = op.id
    BY <1>4, <2>1 DEF OverlayTypeInv, OfItsLogin, Named
  <2>3. i \in 1..Len(logins)
    BY <1>1
  <2>4. logins' \in Seq(Login) /\ Len(logins') = Len(logins) - 1
    BY <1>1, <2>1, <2>3, Removed
  <2>5. Len(logins') <= MaxLogins
    BY <1>1, <2>4
  <2>. QED  BY <1>1, <1>4, <2>1, <2>2, <2>4, <2>5
<1>5. CASE op.op = "unmark"
  BY <1>1, <1>5 DEF Accepted
<1>. QED  BY <1>1, <1>2, <1>3, <1>4, <1>5, Changes

\* The types, and that a commit under way is of its login, are inductive.
LEMMA OverlayTypeStep ==
  OverlayTypeInv /\ [OverlayNext]_overlayVars => OverlayTypeInv'
<1>. SUFFICES ASSUME OverlayTypeInv, [OverlayNext]_overlayVars  PROVE OverlayTypeInv'
  OBVIOUS
<1>1. OverlayTypeOK /\ \A m \in DOMAIN outbox : OfItsLogin(m)
  BY DEF OverlayTypeInv
<1>2. /\ logins \in Seq(Login) /\ outbox \in Seq(Op) /\ Len(logins) \in Nat
      /\ Len(outbox) \in Nat /\ queued \in Nat /\ foreign \in Nat
      /\ commits \in Seq(Commit) /\ Len(commits) = Len(outbox)
      /\ DOMAIN outbox = 1..Len(outbox) /\ DOMAIN commits = 1..Len(outbox)
      /\ {MaxQueued, MaxForeign, MaxLogins} \subseteq Nat
      /\ Len(logins) <= MaxLogins /\ Len(outbox) <= queued
  BY <1>1, OverlayAssumption DEF OverlayTypeOK
<1>3. ASSUME NEW op \in Op, Queue(op)
      PROVE  OverlayTypeInv'
  <2>. DEFINE next == [stage |-> "queued", target |-> None]
  <2>1. /\ outbox' = Append(outbox, op) /\ queued' = queued + 1 /\ queued < MaxQueued
        /\ commits' = Append(commits, next)
        /\ logins' = logins /\ marks' = marks /\ rows' = rows /\ foreign' = foreign
    BY <1>3 DEF Queue
  <2>2. next \in Commit /\ next.stage = "queued"
    BY DEF Commit
  <2>. HIDE DEF next
  <2>3. outbox' \in Seq(Op) /\ Len(outbox') = Len(outbox) + 1
    BY <1>2, <2>1
  <2>4. commits' \in Seq(Commit) /\ Len(commits') = Len(outbox) + 1
    BY <1>2, <2>1, <2>2
  <2>5. queued' \in 0..MaxQueued /\ Len(outbox') <= queued'
    BY <1>2, <2>1, <2>3
  <2>6. OverlayTypeOK'
    BY <1>1, <2>1, <2>3, <2>4, <2>5 DEF OverlayTypeOK
  <2>7. ASSUME NEW m \in DOMAIN outbox'
        PROVE  OfItsLogin(m)'
    <3>1. CASE m \in DOMAIN outbox
      <4>1. outbox'[m] = outbox[m] /\ commits'[m] = commits[m]
        BY <1>2, <2>1, <3>1
      <4>. QED  BY <1>1, <3>1, <4>1 DEF OfItsLogin
    <3>2. CASE m \notin DOMAIN outbox
      <4>1. m = Len(commits) + 1
        BY <1>2, <2>3, <3>2
      <4>2. commits'[m] = next
        BY <1>2, <2>1, <4>1
      <4>. QED  BY <2>2, <4>2 DEF OfItsLogin
    <3>. QED  BY <3>1, <3>2
  <2>. QED  BY <2>6, <2>7 DEF OverlayTypeInv
<1>4. ASSUME NEW n \in DOMAIN outbox, NEW stage \in {"queued", "fetched", "answered"},
             NEW target \in Login \cup {None}, Goes(n, stage, target),
             stage = "fetched" => outbox[n].op # "new",
             Named(outbox[n]) /\ stage = "fetched" =>
               target \in Login /\ KeyOf(target) = outbox[n].id,
             outbox' = outbox
      PROVE  /\ commits' \in Seq(Commit) /\ Len(commits') = Len(outbox')
             /\ \A m \in DOMAIN outbox' : OfItsLogin(m)'
  <2>1. /\ commits' \in Seq(Commit) /\ Len(commits') = Len(outbox)
        /\ commits'[n].stage = stage /\ commits'[n].target = target
        /\ \A m \in DOMAIN outbox : m # n => commits'[m] = commits[m]
    BY <1>1, <1>4, Going
  <2>2. ASSUME NEW m \in DOMAIN outbox
        PROVE  OfItsLogin(m)'
    <3>1. CASE m = n
      BY <1>4, <2>1, <3>1 DEF OfItsLogin
    <3>2. CASE m # n
      BY <1>1, <1>4, <2>1, <3>2 DEF OfItsLogin
    <3>. QED  BY <3>1, <3>2
  <2>. QED  BY <1>4, <2>1, <2>2
<1>5. ASSUME UNCHANGED <<logins, marks, outbox, rows, queued, foreign>>,
             commits' \in Seq(Commit), Len(commits') = Len(outbox'),
             \A m \in DOMAIN outbox' : OfItsLogin(m)'
      PROVE  OverlayTypeInv'
  BY <1>1, <1>5 DEF OverlayTypeInv, OverlayTypeOK
<1>6. ASSUME NEW n \in DOMAIN outbox, Fetch(n)
      PROVE  OverlayTypeInv'
  <2>1. UNCHANGED <<logins, marks, outbox, rows, queued, foreign>> /\ outbox' = outbox
    BY <1>6 DEF Fetch
  <2>2. CASE Named(outbox[n])
    <3>1. Positions(outbox[n].id) # {} /\ Goes(n, "fetched", logins[First(outbox[n].id)])
      BY <1>6, <2>2 DEF Fetch, Named
    <3>2. PICK target \in Login : /\ target = logins[First(outbox[n].id)]
                                  /\ KeyOf(target) = outbox[n].id
      BY <1>2, <3>1, FirstFound
    <3>3. outbox[n].op # "new"
      BY <2>2 DEF Named
    <3>. QED  BY <1>4, <1>5, <2>1, <3>1, <3>2, <3>3
  <2>3. CASE ~Named(outbox[n])
    <3>1. Goes(n, "fetched", None) /\ outbox[n].op # "new"
      BY <1>6, <2>3 DEF Fetch, Named
    <3>. QED  BY <1>4, <1>5, <2>1, <2>3, <3>1
  <2>. QED  BY <2>2, <2>3
<1>7. ASSUME NEW n \in DOMAIN outbox, NEW lost \in BOOLEAN, Post(n, lost)
      PROVE  OverlayTypeInv'
  <2>1. /\ Accepted(outbox[n], commits[n]) /\ Goes(n, IF lost THEN "queued" ELSE "answered", None)
        /\ outbox' = outbox /\ rows' = rows /\ queued' = queued /\ foreign' = foreign
    BY <1>7 DEF Post
  <2>2. /\ commits' \in Seq(Commit) /\ Len(commits') = Len(outbox')
        /\ \A m \in DOMAIN outbox' : OfItsLogin(m)'
    BY <1>4, <2>1
  <2>3. /\ logins' \in Seq(Login) /\ Len(logins') <= MaxLogins
        /\ marks' = IF outbox[n].op = "unmark" THEN marks \ {outbox[n].guid} ELSE marks
    BY <2>1, Taken
  <2>4. marks' \subseteq Bookmarks
    BY <1>1, <2>3 DEF OverlayTypeOK
  <2>. QED  BY <1>1, <2>1, <2>2, <2>3, <2>4 DEF OverlayTypeInv, OverlayTypeOK
<1>8. ASSUME NEW n \in DOMAIN outbox, Conflict(n) \/ Fails(n)
      PROVE  OverlayTypeInv'
  <2>1. /\ UNCHANGED <<logins, marks, outbox, rows, queued, foreign>> /\ outbox' = outbox
        /\ Goes(n, "answered", None) \/ Goes(n, "queued", None)
    BY <1>8 DEF Conflict, Fails
  <2>. QED  BY <1>4, <1>5, <2>1
<1>9. ASSUME NEW n \in DOMAIN outbox, Clear(n)
      PROVE  OverlayTypeInv'
  <2>1. /\ outbox' = RemoveAt(outbox, n) /\ commits' = RemoveAt(commits, n)
        /\ UNCHANGED <<logins, marks, rows, queued, foreign>>
    BY <1>9 DEF Clear
  <2>2. /\ outbox' \in Seq(Op) /\ commits' \in Seq(Commit)
        /\ Len(outbox') = Len(outbox) - 1 /\ Len(commits') = Len(outbox')
        /\ \A m \in DOMAIN outbox' :
             /\ m \in Nat /\ At(n, m) \in DOMAIN outbox \ {n}
             /\ outbox'[m] = outbox[At(n, m)] /\ commits'[m] = commits[At(n, m)]
    BY <1>1, <2>1, Clearing
  <2>3. Len(outbox') <= queued
    BY <1>2, <2>2
  <2>4. OverlayTypeOK'
    BY <1>1, <2>1, <2>2, <2>3 DEF OverlayTypeOK
  <2>5. \A m \in DOMAIN outbox' : OfItsLogin(m)'
    BY <1>1, <2>2 DEF OfItsLogin
  <2>. QED  BY <2>4, <2>5 DEF OverlayTypeInv
<1>10. CASE SyncRows
  <2>1. rows' = Rebuilt([logins |-> logins, marks |-> marks], outbox)
        /\ UNCHANGED <<logins, marks, outbox, commits, queued, foreign>>
    BY <1>10 DEF SyncRows
  <2>2. marks \in SUBSET Bookmarks
    BY <1>1 DEF OverlayTypeOK
  <2>3. MadeOf(rows', logins, marks, outbox)
    BY <1>2, <2>1, <2>2 DEF MadeOf
  <2>4. rows'.pw \in Seq(Row) /\ rows'.bm \subseteq Bookmarks /\ rows'.dup \subseteq rows'.bm
    BY <2>3, RebuiltTypes
  <2>5. OverlayTypeOK'
    BY <1>1, <2>1, <2>4 DEF OverlayTypeOK
  <2>6. \A m \in DOMAIN outbox' : OfItsLogin(m)'
    BY <1>1, <2>1 DEF OfItsLogin
  <2>. QED  BY <2>5, <2>6 DEF OverlayTypeInv
<1>11. CASE Foreign
  <2>1. /\ foreign < MaxForeign /\ foreign' = foreign + 1
        /\ outbox' = outbox /\ commits' = commits /\ rows' = rows /\ queued' = queued
    BY <1>11 DEF Foreign
  <2>2. foreign' \in 0..MaxForeign
    BY <1>2, <2>1
  <2>3. logins' \in Seq(Login) /\ marks' \subseteq Bookmarks /\ Len(logins') <= MaxLogins
    <3>1. ASSUME NEW new \in Login, Len(logins) < MaxLogins, logins' = Append(logins, new),
                 marks' = marks
          PROVE  logins' \in Seq(Login) /\ marks' \subseteq Bookmarks /\ Len(logins') <= MaxLogins
      BY <1>1, <1>2, <3>1 DEF OverlayTypeOK
    <3>2. ASSUME NEW new \in Login, NEW i \in DOMAIN logins,
                 logins' = [logins EXCEPT ![i] = new], marks' = marks
          PROVE  logins' \in Seq(Login) /\ marks' \subseteq Bookmarks /\ Len(logins') <= MaxLogins
      BY <1>1, <1>2, <3>2 DEF OverlayTypeOK
    <3>3. ASSUME NEW i \in DOMAIN logins, logins' = RemoveAt(logins, i), marks' = marks
          PROVE  logins' \in Seq(Login) /\ marks' \subseteq Bookmarks /\ Len(logins') <= MaxLogins
      <4>1. i \in 1..Len(logins)
        BY <1>2
      <4>2. logins' \in Seq(Login) /\ Len(logins') = Len(logins) - 1
        BY <1>2, <3>3, <4>1, Removed
      <4>3. Len(logins') <= MaxLogins
        BY <1>2, <4>2
      <4>. QED  BY <1>1, <3>3, <4>2, <4>3 DEF OverlayTypeOK
    <3>4. CASE \E b \in marks : marks' = marks \ {b} /\ UNCHANGED logins
      BY <1>1, <3>4 DEF OverlayTypeOK
    <3>. QED  BY <1>11, <3>1, <3>2, <3>3, <3>4 DEF Foreign
  <2>4. OverlayTypeOK'
    BY <1>1, <2>1, <2>2, <2>3 DEF OverlayTypeOK
  <2>5. \A m \in DOMAIN outbox' : OfItsLogin(m)'
    BY <1>1, <2>1 DEF OfItsLogin
  <2>. QED  BY <2>4, <2>5 DEF OverlayTypeInv
<1>12. CASE UNCHANGED overlayVars
  BY <1>1, <1>12 DEF OverlayTypeInv, OverlayTypeOK, OfItsLogin, overlayVars
<1>. QED  BY <1>3, <1>6, <1>7, <1>8, <1>9, <1>10, <1>11, <1>12 DEF OverlayNext

\* ... and hold at the start.
LEMMA OverlayTypeStarts == OverlayInit => OverlayTypeInv
<1>. SUFFICES ASSUME OverlayInit  PROVE OverlayTypeInv
  OBVIOUS
<1>1. /\ logins \in UNION {[1..n -> {login \in Login : login.version = 0}] : n \in 0..1}
      /\ marks = Bookmarks
      /\ outbox = <<>> /\ commits = <<>> /\ queued = 0 /\ foreign = 0
      /\ rows = Rebuilt([logins |-> logins, marks |-> marks], outbox)
  BY DEF OverlayInit
<1>2. logins \in Seq(Login) /\ Len(logins) \in 0..1
  <2>1. PICK n \in 0..1 : logins \in [1..n -> Login]
    BY <1>1
  <2>. QED  BY <2>1
<1>3. /\ outbox \in Seq(Op) /\ marks \in SUBSET Bookmarks /\ Len(outbox) = 0
      /\ commits \in Seq(Commit) /\ Len(commits) = 0 /\ DOMAIN outbox = {}
  BY <1>1
<1>4. rows.pw \in Seq(Row) /\ rows.bm \subseteq Bookmarks /\ rows.dup \subseteq rows.bm
  <2>1. MadeOf(rows, logins, marks, outbox)
    BY <1>1, <1>2, <1>3 DEF MadeOf
  <2>. QED  BY <2>1, RebuiltTypes
<1>5. MaxLogins \in Nat /\ MaxLogins >= 1 /\ {MaxQueued, MaxForeign} \subseteq Nat
  <2>1. MaxLogins \in Nat /\ MaxLogins # 0 /\ {MaxQueued, MaxForeign} \subseteq Nat
    BY OverlayAssumption
  <2>. QED  BY <2>1
<1>6. Len(logins) <= MaxLogins
  <2>1. PICK n \in 0..1 : n = Len(logins)
    BY <1>2
  <2>2. n <= MaxLogins
    BY <1>5
  <2>. QED  BY <2>1, <2>2
<1>. QED  BY <1>1, <1>2, <1>3, <1>4, <1>5, <1>6 DEF OverlayTypeInv, OverlayTypeOK

\* What the chain, the outbox and the list hold, whatever is queued and
\* whatever other devices do.
THEOREM OverlayTypeCorrect == OverlaySpec => []OverlayTypeOK
<1>1. OverlayTypeInv => OverlayTypeOK
  BY DEF OverlayTypeInv
<1>. QED  BY <1>1, OverlayTypeStarts, OverlayTypeStep, PTL DEF OverlaySpec

\* What a chain holds with one login changed or without it, when no two have the
\* same key.
LEMMA OthersStay ==
  ASSUME NEW chain \in Seq(Login), DistinctKeys(chain), NEW i \in DOMAIN chain, NEW new \in Login
  PROVE  /\ Range([chain EXCEPT ![i] = new])
              = {login \in Range(chain) : KeyOf(login) # KeyOf(chain[i])} \cup {new}
         /\ Range(RemoveAt(chain, i))
              = {login \in Range(chain) : KeyOf(login) # KeyOf(chain[i])}
<1>. DEFINE Others == {login \in Range(chain) : KeyOf(login) # KeyOf(chain[i])}
<1>1. DOMAIN chain = 1..Len(chain) /\ Len(chain) \in Nat /\ i \in 1..Len(chain)
  OBVIOUS
<1>2. Others = {chain[k] : k \in DOMAIN chain \ {i}}
  BY DEF DistinctKeys, Range
<1>3. Range([chain EXCEPT ![i] = new]) = Others \cup {new}
  <2>. HIDE DEF Others
  <2>. DEFINE made == [chain EXCEPT ![i] = new]
  <2>1. /\ DOMAIN made = DOMAIN chain /\ made[i] = new
        /\ \A k \in DOMAIN chain \ {i} : made[k] = chain[k]
    OBVIOUS
  <2>. HIDE DEF made
  <2>2. Range(made) = Others \cup {new}
    BY <1>2, <2>1 DEF Range
  <2>. QED  BY <2>2 DEF made
<1>4. Range(RemoveAt(chain, i)) = Others
  <2>. DEFINE made == RemoveAt(chain, i)
  <2>1. /\ made \in Seq(Login) /\ Len(made) = Len(chain) - 1
        /\ \A k \in 1..Len(chain) - 1 : made[k] = IF k < i THEN chain[k] ELSE chain[k + 1]
    BY <1>1, Removed
  <2>. HIDE DEF made, Others
  <2>2. DOMAIN made = 1..Len(chain) - 1
    BY <1>1, <2>1
  <2>3. ASSUME NEW k \in DOMAIN made  PROVE made[k] \in Others
    <3>1. CASE k < i
      <4>1. k \in DOMAIN chain \ {i} /\ made[k] = chain[k]
        BY <1>1, <2>1, <2>2, <3>1
      <4>. QED  BY <1>2, <4>1
    <3>2. CASE ~(k < i)
      <4>1. k + 1 \in DOMAIN chain \ {i} /\ made[k] = chain[k + 1]
        BY <1>1, <2>1, <2>2, <3>2
      <4>. QED  BY <1>2, <4>1
    <3>. QED  BY <3>1, <3>2
  <2>4. ASSUME NEW k \in DOMAIN chain \ {i}  PROVE chain[k] \in Range(made)
    <3>1. CASE k < i
      <4>1. k \in DOMAIN made /\ made[k] = chain[k]
        BY <1>1, <2>1, <2>2, <3>1
      <4>. QED  BY <4>1 DEF Range
    <3>2. CASE ~(k < i)
      <4>1. k - 1 \in 1..Len(chain) - 1 /\ ~(k - 1 < i) /\ k - 1 + 1 = k
        BY <1>1, <3>2
      <4>2. k - 1 \in DOMAIN made /\ made[k - 1] = chain[k]
        BY <2>1, <2>2, <4>1
      <4>. QED  BY <4>2 DEF Range
    <3>. QED  BY <3>1, <3>2
  <2>5. Range(made) \subseteq Others
    BY <2>3 DEF Range
  <2>6. Others \subseteq Range(made)
    BY <1>2, <2>4
  <2>. QED  BY <2>5, <2>6 DEF made
<1>. QED  BY <1>3, <1>4

\* What the chain holds, before and after a commit that the server takes.
Becomes(before, op, after) ==
  /\ op.op = "new" => \E new \in Login :
       KeyOf(new) = MadeKey(op) /\ Face(new) = MadeFace(op) /\ after = before \cup {new}
  /\ op.op = "edit" => \E new \in Login :
       /\ KeyOf(new) = MadeKey(op) /\ Face(new) = MadeFace(op)
       /\ after = {login \in before : KeyOf(login) # op.id} \cup {new}
  /\ op.op = "delete" => after = {login \in before : KeyOf(login) # op.id}
  /\ op.op = "unmark" => after = before

LEMMA TakenOf ==
  ASSUME OverlayTypeInv, DistinctKeys(logins), NEW n \in DOMAIN outbox, NEW op, op = outbox[n],
         Accepted(op, commits[n])
  PROVE  Becomes(Range(logins), op, Range(logins'))
<1>1. logins \in Seq(Login)
  BY DEF OverlayTypeInv, OverlayTypeOK
<1>2. CASE op.op = "new"
  <2>1. PICK new \in Login : /\ logins' = Append(logins, new)
                             /\ KeyOf(new) = MadeKey(op) /\ Face(new) = MadeFace(op)
    BY <1>2, Taken
  <2>2. Range(logins') = Range(logins) \cup {new}
    BY <1>1, <2>1, RangeAppend
  <2>. QED  BY <1>2, <2>1, <2>2 DEF Becomes
<1>3. CASE op.op = "edit"
  <2>1. PICK i \in DOMAIN logins, new \in Login :
          /\ KeyOf(logins[i]) = op.id /\ logins' = [logins EXCEPT ![i] = new]
          /\ KeyOf(new) = MadeKey(op) /\ Face(new) = MadeFace(op)
    BY <1>3, Taken
  <2>. DEFINE made == [logins EXCEPT ![i] = new]
  <2>2. Range(made) = {login \in Range(logins) : KeyOf(login) # KeyOf(logins[i])} \cup {new}
    BY <1>1, OthersStay
  <2>. HIDE DEF made
  <2>3. logins' = made
    BY <2>1 DEF made
  <2>4. Range(logins') = {login \in Range(logins) : KeyOf(login) # op.id} \cup {new}
    BY <2>1, <2>2, <2>3
  <2>. QED  BY <1>3, <2>1, <2>4 DEF Becomes
<1>4. CASE op.op = "delete"
  <2>1. PICK i \in DOMAIN logins : KeyOf(logins[i]) = op.id /\ logins' = RemoveAt(logins, i)
    BY <1>4, Taken
  <2>2. Range(logins') = {login \in Range(logins) : KeyOf(login) # op.id}
    <3>1. logins[i] \in Login
      BY <1>1
    <3>. QED  BY <1>1, <2>1, <3>1, OthersStay
  <2>. QED  BY <1>4, <2>2 DEF Becomes
<1>5. CASE op.op = "unmark"
  <2>1. logins' = logins
    BY <1>5, Taken
  <2>. QED  BY <1>5, <2>1 DEF Becomes
<1>6. op.op \in {"new", "edit", "delete", "unmark"}
  BY Taken, Changes
<1>. QED  BY <1>2, <1>3, <1>4, <1>5, <1>6

\* What will be seen once the changes are done is the same before and after one
\* of them is, whether it still waits, for its answer was lost, or not.
LEMMA ExpectedStays ==
  ASSUME NEW before, NEW after, NEW W, NEW V, NEW op \in W,
         op \in Op, W \ {op} \subseteq V, V \subseteq W,
         \A o \in W \ {op} : Touched(o) \cap Touched(op) = {},
         Becomes(before, op, after)
  PROVE  Expected(after, V) = Expected(before, W)
<1>. DEFINE Names(o, login) == Named(o) /\ o.id = KeyOf(login)
            Made(ops) == {MadeFace(o) : o \in {x \in ops : Makes(x)}}
            FacesOf(chain) == {Face(login) : login \in chain}
<1>1. \A ops, chain : /\ Expected(chain, ops) = FacesOf(Unnamed(chain, ops)) \cup Made(ops)
                      /\ Unnamed(chain, ops) = {l \in chain : \A o \in ops : ~Names(o, l)}
  BY DEF Expected, Unnamed
<1>2. \A o \in W \ {op} : /\ Named(o) => o.id \in Touched(o)
                          /\ Makes(o) => MadeKey(o) \in Touched(o)
  BY DEF Named, Makes, Touched
<1>3. /\ Named(op) => op.id \in Touched(op)
      /\ Makes(op) => MadeKey(op) \in Touched(op)
  BY DEF Named, Makes, Touched
<1>4. ASSUME Named(op), ~Makes(op), after = {login \in before : KeyOf(login) # op.id}
      PROVE  Expected(after, V) = Expected(before, W)
  <2>1. Unnamed(after, V) = Unnamed(before, W)
    BY <1>1, <1>4
  <2>2. Made(V) = Made(W)
    BY <1>4
  <2>. HIDE DEF Made, FacesOf
  <2>. QED  BY <1>1, <2>1, <2>2
<1>5. ASSUME ~Named(op), ~Makes(op), after = before
      PROVE  Expected(after, V) = Expected(before, W)
  <2>1. Unnamed(after, V) = Unnamed(before, W)
    BY <1>1, <1>5
  <2>2. Made(V) = Made(W)
    BY <1>5
  <2>. HIDE DEF Made, FacesOf
  <2>. QED  BY <1>1, <2>1, <2>2
<1>6. ASSUME Makes(op), NEW new, KeyOf(new) = MadeKey(op), Face(new) = MadeFace(op),
             NEW rest, after = rest \cup {new},
             rest = {login \in before : Named(op) => KeyOf(login) # op.id}
      PROVE  Expected(after, V) = Expected(before, W)
  <2>1. \A o \in W \ {op} : ~Names(o, new)
    BY <1>2, <1>3, <1>6
  <2>2. Unnamed(rest, V) = Unnamed(before, W)
    BY <1>1, <1>6
  <2>3. /\ Unnamed(rest, V) \subseteq Unnamed(after, V)
        /\ Unnamed(after, V) \subseteq Unnamed(rest, V) \cup {new}
        /\ op \notin V => new \in Unnamed(after, V)
    BY <1>1, <1>6, <2>1
  <2>4. Made(W) = Made(V) \cup {MadeFace(op)} /\ (op \in V => MadeFace(op) \in Made(V))
    BY <1>6
  <2>5. /\ FacesOf(Unnamed(rest, V)) \subseteq FacesOf(Unnamed(after, V))
        /\ FacesOf(Unnamed(after, V)) \subseteq FacesOf(Unnamed(rest, V)) \cup {Face(new)}
        /\ op \notin V => Face(new) \in FacesOf(Unnamed(after, V))
    BY <2>3
  <2>. HIDE DEF Made, FacesOf
  <2>. QED  BY <1>1, <1>6, <2>2, <2>4, <2>5
<1>7. CASE op.op = "new"
  <2>1. PICK new \in Login :
          KeyOf(new) = MadeKey(op) /\ Face(new) = MadeFace(op) /\ after = before \cup {new}
    BY <1>7 DEF Becomes
  <2>2. Makes(op) /\ ~Named(op)
    BY <1>7 DEF Makes, Named
  <2>3. before = {login \in before : Named(op) => KeyOf(login) # op.id}
    BY <2>2
  <2>. QED  BY <1>6, <2>1, <2>2, <2>3
<1>8. CASE op.op = "edit"
  <2>1. PICK new \in Login :
          /\ KeyOf(new) = MadeKey(op) /\ Face(new) = MadeFace(op)
          /\ after = {login \in before : KeyOf(login) # op.id} \cup {new}
    BY <1>8 DEF Becomes
  <2>2. Makes(op) /\ Named(op)
    BY <1>8 DEF Makes, Named
  <2>3. {login \in before : KeyOf(login) # op.id}
          = {login \in before : Named(op) => KeyOf(login) # op.id}
    BY <2>2
  <2>. QED  BY <1>6, <2>1, <2>2, <2>3
<1>9. CASE op.op = "delete"
  BY <1>4, <1>9 DEF Becomes, Makes, Named
<1>10. CASE op.op = "unmark"
  BY <1>5, <1>10 DEF Becomes, Makes, Named
<1>. QED  BY <1>7, <1>8, <1>9, <1>10, Changes

\* What the list knows of a row: its id, and what is seen of it.
Known(row) == [id |-> row.id, face |-> Face(row)]
KnownOf(login) == [id |-> KeyOf(login), face |-> Face(login)]
KnownMade(op) ==
  [id |-> IF op.op = "new" THEN <<op.site, op.user>> ELSE op.id, face |-> MadeFace(op)]
AllKnown(chain, ops) ==
  {KnownOf(login) : login \in Unnamed(chain, ops)}
    \cup {KnownMade(op) : op \in {o \in ops : Makes(o)}}

\* What the rows become by a change that is not done.
RowsBecome(before, op, after) ==
  /\ op.op = "edit" => after = {k \in before : k.id # op.id}
                                 \cup {KnownMade(op) : k \in {x \in before : x.id = op.id}}
  /\ op.op = "new" => after = before \cup {KnownMade(op)}
  /\ op.op = "delete" => after = {k \in before : k.id # op.id}
  /\ op.op = "unmark" => after = before

LEMMA OverlayKnown ==
  ASSUME NEW pw \in Seq(Row), NEW op \in Op,
         op.op = "edit" => op.title # NoTitle,
         op.op = "edit" => \A row \in Range(pw) : row.id = op.id => Face(row).site = op.id[1],
         op.op = "new" => RealmShown(op.site) = RealmOf[op.site]
  PROVE  RowsBecome({Known(row) : row \in Range(pw)}, op,
                    {Known(row) : row \in Range(OverlayOne(pw, op))})
<1>. DEFINE shown == {Known(row) : row \in Range(pw)}
            then == {Known(row) : row \in Range(OverlayOne(pw, op))}
<1>1. CASE op.op = "edit"
  <2>1. ASSUME NEW row \in Range(pw), row.id = op.id
        PROVE  Known(Patched(row, op)) = KnownMade(op)
    <3>1. row \in Row
      BY DEF Range
    <3>2. Patched(row, op) = [row EXCEPT !.title = op.title, !.user = op.user, !.pass = op.pass]
      BY <1>1, <2>1 DEF Patched
    <3>3. /\ Patched(row, op).id = op.id /\ Patched(row, op).site = row.site
          /\ Patched(row, op).user = op.user /\ Patched(row, op).title = op.title
          /\ Patched(row, op).pass = op.pass
      BY <2>1, <3>1, <3>2 DEF Row
    <3>4. RealmShown(row.site) = op.id[1]
      BY <1>1, <2>1 DEF Face
    <3>5. Face(Patched(row, op)) = MadeFace(op)
      <4>1. MadeKey(op)[1] = op.id[1]
        BY <1>1 DEF MadeKey
      <4>. QED  BY <3>3, <3>4, <4>1 DEF Face, MadeFace
    <3>. QED  BY <1>1, <3>3, <3>5 DEF Known, KnownMade
  <2>2. ASSUME NEW row \in Range(pw), row.id # op.id
        PROVE  Known(Patched(row, op)) = Known(row)
    BY <2>2 DEF Patched
  <2>3. then = {Known(Patched(row, op)) : row \in Range(pw)}
    BY <1>1 DEF OverlayOne, Range
  <2>4. \A row : Known(row).id = row.id
    BY DEF Known
  <2>5. then = {k \in shown : k.id # op.id} \cup {KnownMade(op) : k \in {x \in shown : x.id = op.id}}
    <3>. HIDE DEF then
    <3>. QED  BY <2>1, <2>2, <2>3, <2>4
  <2>. QED  BY <1>1, <2>5 DEF RowsBecome
<1>2. CASE op.op = "new"
  <2>. DEFINE row == RowOf([site |-> op.site, user |-> op.user,
                            title |-> op.title, pass |-> op.pass])
  <2>1. row \in Row
    BY <1>2, Changes DEF RowOf, KeyOf, Row, LoginKey
  <2>2. OverlayOne(pw, op) = <<row>> \o pw
    BY <1>2 DEF OverlayOne
  <2>3. Known(row) = KnownMade(op)
    <3>1. Face(row) = MadeFace(op)
      <4>1. MadeKey(op)[1] = RealmOf[op.site]
        BY <1>2 DEF MadeKey
      <4>. QED  BY <1>2, <4>1 DEF Face, MadeFace, RowOf
    <3>2. row.id = <<op.site, op.user>>
      BY DEF RowOf, KeyOf
    <3>. HIDE DEF row
    <3>. QED  BY <1>2, <3>1, <3>2 DEF Known, KnownMade
  <2>. HIDE DEF row
  <2>4. Range(OverlayOne(pw, op)) = {row} \cup Range(pw)
    BY <2>1, <2>2, RangePrepend
  <2>5. then = shown \cup {KnownMade(op)}
    BY <2>3, <2>4
  <2>. QED  BY <1>2, <2>5 DEF RowsBecome
<1>3. CASE op.op = "delete"
  <2>1. Range(OverlayOne(pw, op)) = {row \in Range(pw) : row.id # op.id}
    BY <1>3, Retained DEF OverlayOne
  <2>2. \A row : Known(row).id = row.id
    BY DEF Known
  <2>3. then = {k \in shown : k.id # op.id}
    BY <2>1, <2>2
  <2>. QED  BY <1>3, <2>3 DEF RowsBecome
<1>4. CASE op.op = "unmark"
  BY <1>4 DEF OverlayOne, RowsBecome
<1>. QED  BY <1>1, <1>2, <1>3, <1>4, Changes

\* What can be foreseen of a change, and of those before it.
Plainly(chain, op) ==
  /\ op.op = "edit" => op.title # NoTitle
  /\ op.op = "new" => RealmShown(op.site) = RealmOf[op.site]
  /\ Named(op) => \E login \in chain : KeyOf(login) = op.id

\* A row of an id that a change names is that of its login: no change before it
\* has made one.
LEMMA NotMade ==
  ASSUME NEW chain \in SUBSET Login, NEW op \in Op, NEW o \in Op, Named(op), Makes(o),
         Plainly(chain, op), Plainly(chain, o), Touched(o) \cap Touched(op) = {}
  PROVE  KnownMade(o).id # op.id
<1>1. op.id \in Touched(op)
  BY DEF Touched, Named
<1>2. CASE o.op = "edit"
  BY <1>1, <1>2 DEF KnownMade, Touched
<1>3. CASE o.op = "new"
  <2>. SUFFICES ASSUME <<o.site, o.user>> = op.id  PROVE FALSE
    BY <1>3 DEF KnownMade
  <2>1. PICK login \in chain : KeyOf(login) = op.id
    BY DEF Plainly
  <2>2. o.site = login.site /\ login.site \in Realms
    BY <2>1 DEF KeyOf, Login
  <2>3. RealmOf[o.site] = o.site
    BY <1>3, <2>2, RealmsShown DEF Plainly
  <2>4. MadeKey(o) = op.id
    BY <1>3, <2>3 DEF MadeKey
  <2>5. MadeKey(o) \in Touched(o)
    BY <1>3 DEF Touched
  <2>. QED  BY <1>1, <2>4, <2>5
<1>. QED  BY <1>2, <1>3 DEF Makes

\* The rows with one change more.
LEMMA KnownThen ==
  ASSUME NEW chain \in SUBSET Login, NEW ops \in SUBSET Op, NEW op \in Op,
         Plainly(chain, op), \A o \in ops : Plainly(chain, o),
         \A o \in ops : Touched(o) \cap Touched(op) = {},
         NEW then, RowsBecome(AllKnown(chain, ops), op, then)
  PROVE  then = AllKnown(chain, ops \cup {op})
<1>. DEFINE Left(os) == {KnownOf(login) : login \in Unnamed(chain, os)}
            Made(os) == {KnownMade(o) : o \in {x \in os : Makes(x)}}
<1>1. \A os : AllKnown(chain, os) = Left(os) \cup Made(os)
  BY DEF AllKnown
<1>2. \A login : KnownOf(login).id = KeyOf(login)
  BY DEF KnownOf
<1>3. CASE Named(op)
  <2>1. Left(ops \cup {op}) = {k \in Left(ops) : k.id # op.id}
    BY <1>2, <1>3 DEF Unnamed
  <2>2. \A k \in Made(ops) : k.id # op.id
    BY <1>3, NotMade
  <2>3. \E k \in Left(ops) : k.id = op.id
    <3>1. PICK login \in chain : KeyOf(login) = op.id
      BY <1>3 DEF Plainly
    <3>2. login \in Unnamed(chain, ops)
      <4>1. op.id \in Touched(op) /\ \A o \in ops : Named(o) => o.id \in Touched(o)
        BY <1>3 DEF Touched, Named
      <4>. QED  BY <3>1, <4>1 DEF Unnamed
    <3>. QED  BY <1>2, <3>1, <3>2
  <2>4. CASE op.op = "edit"
    <3>1. Made(ops \cup {op}) = Made(ops) \cup {KnownMade(op)}
      BY <2>4 DEF Makes
    <3>2. then = {k \in AllKnown(chain, ops) : k.id # op.id}
                   \cup {KnownMade(op) : k \in {x \in AllKnown(chain, ops) : x.id = op.id}}
      BY <2>4 DEF RowsBecome
    <3>. HIDE DEF Left, Made
    <3>3. {k \in AllKnown(chain, ops) : k.id # op.id} = Left(ops \cup {op}) \cup Made(ops)
      BY <1>1, <2>1, <2>2
    <3>4. {KnownMade(op) : k \in {x \in AllKnown(chain, ops) : x.id = op.id}} = {KnownMade(op)}
      BY <1>1, <2>3
    <3>5. then = (Left(ops \cup {op}) \cup Made(ops)) \cup {KnownMade(op)}
      BY <3>2, <3>3, <3>4
    <3>6. AllKnown(chain, ops \cup {op}) = Left(ops \cup {op}) \cup Made(ops \cup {op})
      BY <1>1
    <3>. QED  BY <3>1, <3>5, <3>6
  <2>5. CASE op.op = "delete"
    <3>1. Made(ops \cup {op}) = Made(ops)
      BY <2>5 DEF Makes
    <3>2. then = {k \in AllKnown(chain, ops) : k.id # op.id}
      BY <2>5 DEF RowsBecome
    <3>. HIDE DEF Left, Made
    <3>3. {k \in AllKnown(chain, ops) : k.id # op.id} = Left(ops \cup {op}) \cup Made(ops)
      BY <1>1, <2>1, <2>2
    <3>. QED  BY <1>1, <3>1, <3>2, <3>3
  <2>. QED  BY <1>3, <2>4, <2>5 DEF Named
<1>4. CASE ~Named(op)
  <2>1. Left(ops \cup {op}) = Left(ops)
    BY <1>4 DEF Unnamed
  <2>2. CASE op.op = "new"
    <3>1. Made(ops \cup {op}) = Made(ops) \cup {KnownMade(op)}
      BY <2>2 DEF Makes
    <3>2. then = AllKnown(chain, ops) \cup {KnownMade(op)}
      BY <2>2 DEF RowsBecome
    <3>. HIDE DEF Left, Made
    <3>. QED  BY <1>1, <2>1, <3>1, <3>2
  <2>3. CASE op.op = "unmark"
    <3>1. Made(ops \cup {op}) = Made(ops)
      BY <2>3 DEF Makes
    <3>2. then = AllKnown(chain, ops)
      BY <2>3 DEF RowsBecome
    <3>. HIDE DEF Left, Made
    <3>. QED  BY <1>1, <2>1, <3>1, <3>2
  <2>. QED  BY <1>4, <2>2, <2>3, Changes DEF Named
<1>. QED  BY <1>3, <1>4

\* What a sync shows is what will be seen once the changes that wait are done.
LEMMA AheadIsExpected ==
  ASSUME OverlayTypeOK, \A n \in DOMAIN outbox : Plain(n)
  PROVE  /\ Faces(Ahead(logins, outbox)) = Expected(Range(logins), Waiting)
         /\ Unmarked(outbox) = UnmarkedBy(Waiting)
<1>1. /\ logins \in Seq(Login) /\ outbox \in Seq(Op) /\ Len(outbox) \in Nat
      /\ DOMAIN outbox = 1..Len(outbox) /\ ChainRows(logins) \in Seq(Row)
  <2>1. logins \in Seq(Login) /\ outbox \in Seq(Op)
    BY DEF OverlayTypeOK
  <2>2. ChainRows(logins) \in Seq(Row)
    BY <2>1, ChainTypes
  <2>. QED  BY <2>1, <2>2
<1>2. Waiting = Range(outbox)
  BY DEF Plain, Waiting, Range
<1>3. PICK f \in [0..Len(outbox) -> Seq(Row)] :
        /\ f[0] = ChainRows(logins)
        /\ \A n \in 1..Len(outbox) : f[n] = OverlayOne(f[n - 1], outbox[n])
        /\ Ahead(logins, outbox) = f[Len(outbox)]
  BY <1>1, OverlaySteps DEF Ahead
<1>. DEFINE Ops(n) == {outbox[k] : k \in 1..n}
            KnownBy(n) == {Known(row) : row \in Range(f[n])}
            Good == {n \in 0..Len(outbox) : KnownBy(n) = AllKnown(Range(logins), Ops(n))}
<1>4. Range(logins) \in SUBSET Login /\ \A n \in 1..Len(outbox) : outbox[n] \in Op
  BY <1>1 DEF Range
<1>5. ASSUME NEW n \in 1..Len(outbox)
      PROVE  Plainly(Range(logins), outbox[n])
  <2>1. Plain(n)
    BY <1>1
  <2>2. ASSUME Named(outbox[n])
        PROVE  \E login \in Range(logins) : KeyOf(login) = outbox[n].id
    <3>1. Positions(outbox[n].id) # {}
      BY <2>1, <2>2 DEF Plain, Named
    <3>. QED  BY <3>1 DEF Positions, Range
  <2>. QED  BY <2>1, <2>2 DEF Plain, Plainly
<1>6. 0 \in Good
  <2>1. Ops(0) = {}
    OBVIOUS
  <2>2. AllKnown(Range(logins), {}) = {KnownOf(login) : login \in Range(logins)}
    BY DEF AllKnown, Unnamed
  <2>3. \A n \in DOMAIN logins : Known(ChainRows(logins)[n]) = KnownOf(logins[n])
    BY <1>1, ChainRow DEF Known, KnownOf, Face
  <2>4. DOMAIN ChainRows(logins) = DOMAIN logins
    BY <1>1, ChainTypes
  <2>5. {Known(row) : row \in Range(ChainRows(logins))} = {KnownOf(login) : login \in Range(logins)}
    BY <2>3, <2>4 DEF Range
  <2>6. KnownBy(0) = {Known(row) : row \in Range(ChainRows(logins))}
    BY <1>3
  <2>7. 0 \in 0..Len(outbox)
    BY <1>1
  <2>. HIDE DEF KnownBy, Ops
  <2>. QED  BY <2>1, <2>2, <2>5, <2>6, <2>7
<1>7. ASSUME NEW n \in 1..Len(outbox), n - 1 \in Good
      PROVE  n \in Good
  <2>. DEFINE op == outbox[n]
  <2>1. /\ op \in Op /\ f[n - 1] \in Seq(Row) /\ n - 1 \in 0..Len(outbox)
        /\ n \in 0..Len(outbox) /\ Ops(n) = Ops(n - 1) \cup {op} /\ f[n] = OverlayOne(f[n - 1], op)
    <3>1. 1..n = (1..n - 1) \cup {n} /\ n - 1 \in 0..Len(outbox) /\ n \in 0..Len(outbox)
      BY <1>1
    <3>. QED  BY <1>3, <1>4, <3>1
  <2>2. /\ Ops(n - 1) \in SUBSET Op
        /\ \A o \in Ops(n - 1) : Plainly(Range(logins), o)
        /\ \A o \in Ops(n - 1) : Touched(o) \cap Touched(op) = {}
    <3>1. \A k \in 1..n - 1 : k \in 1..Len(outbox) /\ k \in DOMAIN outbox \ {n}
      BY <1>1
    <3>2. \A k \in 1..n - 1 : Touched(outbox[k]) \cap Touched(op) = {}
      BY <1>1, <3>1 DEF Plain
    <3>. QED  BY <1>4, <1>5, <3>1, <3>2
  <2>3. Plainly(Range(logins), op)
    BY <1>5
  <2>4. KnownBy(n - 1) = AllKnown(Range(logins), Ops(n - 1))
    BY <1>7
  <2>. HIDE DEF op, Ops
  <2>5. ASSUME op.op = "edit", NEW row \in Range(f[n - 1]), row.id = op.id
        PROVE  Face(row).site = op.id[1]
    <3>1. Known(row) \in AllKnown(Range(logins), Ops(n - 1)) /\ Known(row).id = op.id
          /\ Known(row).face = Face(row)
      BY <2>4, <2>5 DEF Known
    <3>2. \A o \in Ops(n - 1) : Makes(o) => KnownMade(o).id # op.id
      <4>1. Named(op)
        BY <2>5 DEF Named
      <4>. QED  BY <1>4, <2>1, <2>2, <2>3, <4>1, NotMade
    <3>3. PICK login \in Range(logins) : Known(row) = KnownOf(login)
      BY <3>1, <3>2 DEF AllKnown, Unnamed
    <3>4. KeyOf(login) = op.id /\ Face(row) = Face(login) /\ login \in Login
      BY <1>4, <3>1, <3>3 DEF KnownOf
    <3>5. op.id[1] = login.site /\ login.site \in Realms
      BY <3>4 DEF KeyOf, Login
    <3>6. Face(login).site = login.site
      BY <3>5, RealmsShown DEF Face
    <3>. QED  BY <3>4, <3>5, <3>6
  <2>6. RowsBecome(KnownBy(n - 1), op, KnownBy(n))
    BY <2>1, <2>3, <2>5, OverlayKnown DEF Plainly
  <2>. HIDE DEF KnownBy
  <2>7. KnownBy(n) = AllKnown(Range(logins), Ops(n - 1) \cup {op})
    BY <1>4, <2>1, <2>2, <2>3, <2>4, <2>6, KnownThen
  <2>. QED  BY <2>1, <2>7
<1>8. Len(outbox) \in Good
  <2>. HIDE DEF Good
  <2>1. 0..Len(outbox) \subseteq Good
    BY <1>1, <1>6, <1>7, UpTo
  <2>. QED  BY <1>1, <2>1
<1>9. Ops(Len(outbox)) = Waiting
  BY <1>1, <1>2 DEF Range
<1>10. {Known(row) : row \in Range(Ahead(logins, outbox))} = AllKnown(Range(logins), Waiting)
  BY <1>3, <1>8, <1>9
<1>11. Faces(Ahead(logins, outbox)) = {k.face : k \in AllKnown(Range(logins), Waiting)}
  <2>1. \A row : Known(row).face = Face(row)
    BY DEF Known
  <2>2. Faces(Ahead(logins, outbox))
          = {k.face : k \in {Known(row) : row \in Range(Ahead(logins, outbox))}}
    BY <2>1 DEF Faces
  <2>. QED  BY <1>10, <2>2
<1>12. {k.face : k \in AllKnown(Range(logins), Waiting)} = Expected(Range(logins), Waiting)
  <2>1. /\ \A login : KnownOf(login).face = Face(login)
        /\ \A op : KnownMade(op).face = MadeFace(op)
    BY DEF KnownOf, KnownMade
  <2>. QED  BY <2>1 DEF AllKnown, Expected
<1>13. Unmarked(outbox) = UnmarkedBy(Waiting)
  BY <1>2 DEF Unmarked, UnmarkedBy
<1>. QED  BY <1>11, <1>12, <1>13

\* Which changes wait when one of them goes on.
LEMMA WaitingThen ==
  ASSUME OverlayTypeOK, NEW n \in DOMAIN outbox, commits[n].stage # "answered",
         NEW stage \in {"queued", "fetched", "answered"}, NEW target \in Login \cup {None},
         Goes(n, stage, target), outbox' = outbox
  PROVE  /\ outbox[n] \in Waiting /\ Waiting \ {outbox[n]} \subseteq Waiting'
         /\ Waiting' \subseteq Waiting
         /\ stage # "answered" => Waiting' = Waiting
<1>1. /\ commits'[n].stage = stage
      /\ \A m \in DOMAIN outbox : m # n => commits'[m] = commits[m]
  BY Going
<1>2. Waiting' = {outbox[m] : m \in {k \in DOMAIN outbox : commits'[k].stage # "answered"}}
  BY DEF Waiting
<1>. QED  BY <1>1, <1>2 DEF Waiting

\* Changes that stay as they are are as steady as before.
LEMMA SteadyThen ==
  ASSUME outbox' = outbox, \A n \in DOMAIN outbox : Steady(n)
  PROVE  \A n \in DOMAIN outbox' : Steady(n)'
BY DEF Steady

\* A commit under way is not of a login that another one takes.
LEMMA CurrentThen ==
  ASSUME OverlayTypeInv, NEW n \in DOMAIN outbox, NEW m \in DOMAIN outbox, m # n,
         Steady(n), Current(m), commits'[m] = commits[m], outbox' = outbox,
         Becomes(Range(logins), outbox[n], Range(logins'))
  PROVE  Current(m)'
<1>. SUFFICES ASSUME Named(outbox[m]), commits[m].stage = "fetched"
              PROVE  commits[m].target \in Range(logins')
  BY DEF Current
<1>1. KeyOf(commits[m].target) = outbox[m].id /\ commits[m].target \in Range(logins)
  BY DEF OverlayTypeInv, OfItsLogin, Current
<1>2. Named(outbox[n]) => KeyOf(commits[m].target) # outbox[n].id
  <2>1. Touched(outbox[m]) \cap Touched(outbox[n]) = {}
    BY DEF Steady
  <2>. QED  BY <1>1, <2>1 DEF Touched, Named
<1>3. outbox[n] \in Op
  BY DEF OverlayTypeInv, OverlayTypeOK
<1>4. outbox[n].op \in {"edit", "new", "delete", "unmark"}
  BY <1>3, Changes
<1>. QED  BY <1>1, <1>2, <1>4 DEF Becomes, Named

\* The same changes are unmarked but for one whose bookmark is not there.
LEMMA UnmarkedThen ==
  ASSUME NEW before, NEW after, NEW W, NEW V, NEW op \in W, W \ {op} \subseteq V, V \subseteq W,
         op.op = "unmark" => after = before \ {op.guid},
         op.op # "unmark" => after = before
  PROVE  after \ UnmarkedBy(V) = before \ UnmarkedBy(W)
<1>1. CASE op.op = "unmark"
  <2>1. UnmarkedBy(W) = UnmarkedBy(V) \cup {op.guid}
    BY <1>1 DEF UnmarkedBy
  <2>. QED  BY <1>1, <2>1
<1>2. CASE op.op # "unmark"
  <2>1. UnmarkedBy(W) = UnmarkedBy(V)
    BY <1>2 DEF UnmarkedBy
  <2>. QED  BY <1>2, <2>1
<1>. QED  BY <1>1, <1>2

\* Until something else happens the forecast is what will be seen.
LEMMA ForeseenStep ==
  OverlayTypeInv /\ Foreseen /\ [OverlayNext]_overlayVars => Foreseen'
<1>. SUFFICES ASSUME OverlayTypeInv, Foreseen, [OverlayNext]_overlayVars, forecast' # None
              PROVE  /\ Pictured(forecast') /\ DistinctKeys(logins')
                     /\ \A n \in DOMAIN outbox' : Steady(n)' /\ Current(n)'
                     /\ {Face(r) : r \in forecast'.pw} = Expected(Range(logins'), Waiting')
                     /\ forecast'.bm = marks' \ UnmarkedBy(Waiting')
  BY DEF Foreseen, DistinctKeys
<1>1. OverlayTypeOK /\ \A m \in DOMAIN outbox : OfItsLogin(m)
  BY DEF OverlayTypeInv
<1>2. ASSUME forecast' = forecast
      PROVE  /\ Pictured(forecast') /\ DistinctKeys(logins)
             /\ \A n \in DOMAIN outbox : Steady(n) /\ Current(n)
             /\ {Face(r) : r \in forecast'.pw} = Expected(Range(logins), Waiting)
             /\ forecast'.bm = marks \ UnmarkedBy(Waiting)
  BY <1>2 DEF Foreseen
<1>3. ASSUME NEW n \in DOMAIN outbox, commits[n].stage # "answered",
             NEW stage \in {"queued", "fetched", "answered"}, NEW target \in Login \cup {None},
             Goes(n, stage, target), outbox' = outbox, forecast' = forecast,
             DistinctKeys(logins'),
             Named(outbox[n]) /\ stage = "fetched" => target \in Range(logins'),
             Becomes(Range(logins), outbox[n], Range(logins')),
             outbox[n].op = "unmark" => marks' = marks \ {outbox[n].guid},
             outbox[n].op # "unmark" => marks' = marks
      PROVE  /\ Pictured(forecast') /\ DistinctKeys(logins')
             /\ \A m \in DOMAIN outbox' : Steady(m)' /\ Current(m)'
             /\ {Face(r) : r \in forecast'.pw} = Expected(Range(logins'), Waiting')
             /\ forecast'.bm = marks' \ UnmarkedBy(Waiting')
  <2>1. /\ outbox[n] \in Waiting /\ Waiting \ {outbox[n]} \subseteq Waiting'
        /\ Waiting' \subseteq Waiting
    BY <1>1, <1>3, WaitingThen
  <2>2. \A o \in Waiting \ {outbox[n]} : Touched(o) \cap Touched(outbox[n]) = {}
    BY <1>2, <1>3 DEF Waiting, Steady
  <2>3. outbox[n] \in Op
    BY <1>1 DEF OverlayTypeOK
  <2>4. Expected(Range(logins'), Waiting') = Expected(Range(logins), Waiting)
    BY <1>3, <2>1, <2>2, <2>3, ExpectedStays
  <2>5. marks' \ UnmarkedBy(Waiting') = marks \ UnmarkedBy(Waiting)
    <3>. DEFINE op == outbox[n]
    <3>1. op \in Waiting /\ Waiting \ {op} \subseteq Waiting' /\ Waiting' \subseteq Waiting
      BY <2>1
    <3>2. /\ op.op = "unmark" => marks' = marks \ {op.guid}
          /\ op.op # "unmark" => marks' = marks
      BY <1>3
    <3>. HIDE DEF op
    <3>. QED  BY ONLY <3>1, <3>2, UnmarkedThen
  <2>6. \A m \in DOMAIN outbox' : Steady(m)'
    BY <1>2, <1>3, SteadyThen
  <2>7. /\ commits'[n].stage = stage /\ commits'[n].target = target
        /\ \A m \in DOMAIN outbox : m # n => commits'[m] = commits[m]
    BY <1>1, <1>3, Going
  <2>8. ASSUME NEW m \in DOMAIN outbox'
        PROVE  Current(m)'
    <3>1. CASE m = n
      BY <1>3, <2>7, <3>1 DEF Current
    <3>2. CASE m # n
      BY <1>2, <1>3, <2>7, <3>2, CurrentThen
    <3>. QED  BY <3>1, <3>2
  <2>. QED  BY <1>2, <1>3, <2>4, <2>5, <2>6, <2>8
<1>4. ASSUME logins' = logins, NEW op, op \in Op
      PROVE  op.op = "unmark" => Becomes(Range(logins), op, Range(logins'))
  BY <1>4 DEF Becomes
<1>5. ASSUME NEW n \in DOMAIN outbox, commits[n].stage # "answered",
             NEW stage \in {"queued", "fetched"}, NEW target \in Login \cup {None},
             Goes(n, stage, target), UNCHANGED <<logins, marks, outbox, forecast>>,
             Named(outbox[n]) /\ stage = "fetched" => target \in Range(logins')
      PROVE  /\ Pictured(forecast') /\ DistinctKeys(logins')
             /\ \A m \in DOMAIN outbox' : Steady(m)' /\ Current(m)'
             /\ {Face(r) : r \in forecast'.pw} = Expected(Range(logins'), Waiting')
             /\ forecast'.bm = marks' \ UnmarkedBy(Waiting')
  <2>1. Waiting' = Waiting
    BY <1>1, <1>5, WaitingThen
  <2>2. /\ commits'[n].stage = stage /\ commits'[n].target = target
        /\ \A m \in DOMAIN outbox : m # n => commits'[m] = commits[m]
    BY <1>1, <1>5, Going
  <2>3. \A m \in DOMAIN outbox' : Steady(m)'
    BY <1>2, <1>5, SteadyThen
  <2>4. ASSUME NEW m \in DOMAIN outbox'
        PROVE  Current(m)'
    <3>1. CASE m = n
      BY <1>5, <2>2, <3>1 DEF Current
    <3>2. CASE m # n
      BY <1>2, <1>5, <2>2, <3>2 DEF Current
    <3>. QED  BY <3>1, <3>2
  <2>. QED  BY <1>2, <1>5, <2>1, <2>3, <2>4
<1>6. ASSUME NEW n \in DOMAIN outbox, Fetch(n)
      PROVE  /\ Pictured(forecast') /\ DistinctKeys(logins')
             /\ \A m \in DOMAIN outbox' : Steady(m)' /\ Current(m)'
             /\ {Face(r) : r \in forecast'.pw} = Expected(Range(logins'), Waiting')
             /\ forecast'.bm = marks' \ UnmarkedBy(Waiting')
  <2>1. commits[n].stage # "answered" /\ UNCHANGED <<logins, marks, outbox, forecast>>
    BY <1>6 DEF Fetch
  <2>2. CASE Named(outbox[n])
    <3>1. Positions(outbox[n].id) # {} /\ Goes(n, "fetched", logins[First(outbox[n].id)])
      BY <1>6, <2>2 DEF Fetch, Named
    <3>2. logins \in Seq(Login)
      BY <1>1 DEF OverlayTypeOK
    <3>3. PICK i \in DOMAIN logins : i = First(outbox[n].id)
      BY <3>1, <3>2, FirstFound
    <3>4. logins[i] \in Login /\ logins[i] \in Range(logins)
      BY <3>2 DEF Range
    <3>. QED  BY <1>5, <2>1, <3>1, <3>3, <3>4
  <2>3. CASE ~Named(outbox[n])
    <3>1. Goes(n, "fetched", None)
      BY <1>6, <2>3 DEF Fetch, Named
    <3>. QED  BY <1>5, <2>1, <2>3, <3>1
  <2>. QED  BY <2>2, <2>3
<1>7. ASSUME NEW n \in DOMAIN outbox, NEW lost \in BOOLEAN, Post(n, lost)
      PROVE  /\ Pictured(forecast') /\ DistinctKeys(logins')
             /\ \A m \in DOMAIN outbox' : Steady(m)' /\ Current(m)'
             /\ {Face(r) : r \in forecast'.pw} = Expected(Range(logins'), Waiting')
             /\ forecast'.bm = marks' \ UnmarkedBy(Waiting')
  <2>1. /\ Accepted(outbox[n], commits[n]) /\ Goes(n, IF lost THEN "queued" ELSE "answered", None)
        /\ outbox' = outbox
        /\ forecast' = IF DistinctKeys(logins') THEN forecast ELSE None
    BY <1>7 DEF Post
  <2>2. forecast' = forecast /\ DistinctKeys(logins')
    BY <2>1
  <2>3. commits[n].stage # "answered"
    BY <2>1 DEF Accepted
  <2>4. Becomes(Range(logins), outbox[n], Range(logins'))
    BY <1>2, <2>1, <2>2, TakenOf
  <2>5. marks' = IF outbox[n].op = "unmark" THEN marks \ {outbox[n].guid} ELSE marks
    BY <2>1, Taken
  <2>. QED  BY <1>3, <2>1, <2>2, <2>3, <2>4, <2>5
<1>8. ASSUME NEW n \in DOMAIN outbox, Conflict(n)
      PROVE  /\ Pictured(forecast') /\ DistinctKeys(logins')
             /\ \A m \in DOMAIN outbox' : Steady(m)' /\ Current(m)'
             /\ {Face(r) : r \in forecast'.pw} = Expected(Range(logins'), Waiting')
             /\ forecast'.bm = marks' \ UnmarkedBy(Waiting')
  <2>1. /\ commits[n].stage = "fetched" /\ Goes(n, "answered", None)
        /\ UNCHANGED <<logins, marks, outbox, forecast>>
        /\ IF outbox[n].op = "unmark" THEN outbox[n].guid \notin marks
                                      ELSE commits[n].target \notin Range(logins)
    BY <1>8 DEF Conflict
  <2>2. outbox[n].op = "unmark"
    <3>1. outbox[n] \in Op /\ OfItsLogin(n) /\ Current(n)
      BY <1>1, <1>2, <2>1 DEF OverlayTypeOK
    <3>. QED  BY <2>1, <3>1, Changes DEF OfItsLogin, Current, Named
  <2>3. Becomes(Range(logins), outbox[n], Range(logins'))
    BY <2>1, <2>2 DEF Becomes
  <2>4. marks' = marks \ {outbox[n].guid} /\ DistinctKeys(logins')
    BY <1>2, <2>1, <2>2
  <2>. QED  BY <1>3, <2>1, <2>2, <2>3, <2>4
<1>9. ASSUME NEW n \in DOMAIN outbox, Fails(n)
      PROVE  /\ Pictured(forecast') /\ DistinctKeys(logins')
             /\ \A m \in DOMAIN outbox' : Steady(m)' /\ Current(m)'
             /\ {Face(r) : r \in forecast'.pw} = Expected(Range(logins'), Waiting')
             /\ forecast'.bm = marks' \ UnmarkedBy(Waiting')
  BY <1>5, <1>9 DEF Fails
<1>10. ASSUME NEW n \in DOMAIN outbox, Clear(n)
       PROVE  /\ Pictured(forecast') /\ DistinctKeys(logins')
              /\ \A m \in DOMAIN outbox' : Steady(m)' /\ Current(m)'
              /\ {Face(r) : r \in forecast'.pw} = Expected(Range(logins'), Waiting')
              /\ forecast'.bm = marks' \ UnmarkedBy(Waiting')
  <2>1. /\ commits[n].stage = "answered"
        /\ outbox' = RemoveAt(outbox, n) /\ commits' = RemoveAt(commits, n)
        /\ logins' = logins /\ marks' = marks /\ forecast' = forecast
    BY <1>10 DEF Clear
  <2>2. /\ \A m \in DOMAIN outbox' :
             /\ m \in Nat /\ At(n, m) \in DOMAIN outbox \ {n}
             /\ outbox'[m] = outbox[At(n, m)] /\ commits'[m] = commits[At(n, m)]
        /\ \A m \in DOMAIN outbox \ {n} : \E k \in DOMAIN outbox' : At(n, k) = m
    BY <1>1, <2>1, Clearing
  <2>3. Waiting' = Waiting
    <3>1. Waiting' = {outbox'[m] : m \in {k \in DOMAIN outbox' : commits'[k].stage # "answered"}}
      BY DEF Waiting
    <3>2. Waiting' \subseteq Waiting
      BY <2>2, <3>1 DEF Waiting
    <3>3. Waiting \subseteq Waiting'
      BY <2>1, <2>2, <3>1 DEF Waiting
    <3>. QED  BY <3>2, <3>3
  <2>4. ASSUME NEW m \in DOMAIN outbox'
        PROVE  Steady(m)' /\ Current(m)'
    <3>1. Steady(At(n, m)) /\ Current(At(n, m))
      BY <1>2, <2>1, <2>2
    <3>2. \A k \in DOMAIN outbox' \ {m} : At(n, k) # At(n, m)
      <4>1. n \in Nat
        BY <1>1 DEF OverlayTypeOK
      <4>. QED  BY <2>2, <4>1 DEF At
    <3>3. \A k \in DOMAIN outbox' \ {m} : Touched(outbox'[k]) \cap Touched(outbox'[m]) = {}
      BY <2>2, <3>1, <3>2 DEF Steady
    <3>. QED  BY <2>1, <2>2, <3>1, <3>3 DEF Steady, Current
  <2>. QED  BY <1>2, <2>1, <2>3, <2>4
<1>11. CASE SyncRows
  <2>1. /\ rows' = Rebuilt([logins |-> logins, marks |-> marks], outbox)
        /\ logins' = logins /\ marks' = marks /\ outbox' = outbox /\ commits' = commits
        /\ DistinctKeys(logins) /\ \A n \in DOMAIN outbox : Plain(n)
        /\ forecast' = Seen(rows')
    BY <1>11 DEF SyncRows
  <2>2. MadeOf(rows', logins, marks, outbox)
    BY <1>1, <2>1 DEF MadeOf, OverlayTypeOK
  <2>3. Pictured(forecast') /\ AsAhead(forecast', logins, marks, outbox)
    BY <2>1, <2>2, ShownAsForeseen
  <2>4. /\ Faces(Ahead(logins, outbox)) = Expected(Range(logins), Waiting)
        /\ Unmarked(outbox) = UnmarkedBy(Waiting)
    BY <1>1, <2>1, AheadIsExpected
  <2>5. \A n \in DOMAIN outbox : Steady(n) /\ Current(n)
    BY <2>1 DEF Plain, Steady, Current, Named
  <2>6. \A n \in DOMAIN outbox' : Steady(n)' /\ Current(n)'
    BY <2>1, <2>5 DEF Steady, Current
  <2>7. Waiting' = Waiting
    BY <2>1 DEF Waiting
  <2>. QED  BY <2>1, <2>3, <2>4, <2>6, <2>7 DEF AsAhead
<1>12. CASE UNCHANGED overlayVars
  <2>1. /\ forecast' = forecast /\ logins' = logins /\ marks' = marks /\ outbox' = outbox
        /\ commits' = commits
    BY <1>12 DEF overlayVars
  <2>2. /\ Waiting' = Waiting
        /\ \A n \in DOMAIN outbox : Steady(n) /\ Current(n) => Steady(n)' /\ Current(n)'
    BY <2>1 DEF Waiting, Steady, Current
  <2>. QED  BY <1>2, <2>1, <2>2
<1>13. ~(\E op \in Op : Queue(op)) /\ ~Foreign
  BY DEF Queue, Foreign
<1>. QED  BY <1>6, <1>7, <1>8, <1>9, <1>10, <1>11, <1>12, <1>13 DEF OverlayNext

\* When nothing waits any more the list is as it was foreseen: no login is there
\* twice, so nothing is flagged as mismatched, in either.
LEMMA ForeseenIsShown ==
  ASSUME OverlayTypeInv, Foreseen
  PROVE  ForeseenIsDrained
<1>. SUFFICES ASSUME outbox = <<>>, forecast # None
              PROVE  Seen(Rebuilt([logins |-> logins, marks |-> marks], <<>>)) = forecast
  BY DEF ForeseenIsDrained
<1>. PICK made : made = Rebuilt([logins |-> logins, marks |-> marks], <<>>)
  OBVIOUS
<1>. PICK seen : seen = Seen(made)
  OBVIOUS
<1>1. MadeOf(made, logins, marks, <<>>)
  BY DEF MadeOf, OverlayTypeInv, OverlayTypeOK
<1>2. Pictured(seen) /\ AsAhead(seen, logins, marks, <<>>)
  BY <1>1, ShownAsForeseen
<1>3. /\ Faces(Ahead(logins, <<>>)) = Expected(Range(logins), Waiting)
      /\ Unmarked(<<>>) = UnmarkedBy(Waiting)
  <2>1. OverlayTypeOK /\ \A n \in DOMAIN outbox : Plain(n)
    BY DEF OverlayTypeInv
  <2>. QED  BY <2>1, AheadIsExpected
<1>4. /\ Pictured(forecast) /\ AsAhead(forecast, logins, marks, <<>>)
      /\ DistinctKeys(logins)
  BY <1>3 DEF Foreseen, AsAhead
<1>5. ASSUME NEW f, NEW g, f \in Faces(Ahead(logins, <<>>)), g \in Faces(Ahead(logins, <<>>)),
             f.site = g.site, f.user = g.user
      PROVE  f = g
  <2>1. Ahead(logins, <<>>) = ChainRows(logins)
    <3>1. logins \in Seq(Login) /\ ChainRows(logins) \in Seq(Row)
      BY ChainTypes DEF OverlayTypeInv, OverlayTypeOK
    <3>. QED  BY <3>1, NoOverlay DEF Ahead
  <2>2. logins \in Seq(Login) /\ DOMAIN ChainRows(logins) = DOMAIN logins
    BY ChainTypes DEF OverlayTypeInv, OverlayTypeOK
  <2>3. \A n \in DOMAIN logins :
          Face(ChainRows(logins)[n]).site = logins[n].site
            /\ Face(ChainRows(logins)[n]).user = logins[n].user
    <3>. SUFFICES ASSUME NEW n \in DOMAIN logins
                  PROVE  Face(ChainRows(logins)[n]).site = logins[n].site
                           /\ Face(ChainRows(logins)[n]).user = logins[n].user
      OBVIOUS
    <3>1. /\ ChainRows(logins)[n].site = logins[n].site
          /\ ChainRows(logins)[n].user = logins[n].user
      BY <2>2, ChainRow
    <3>2. logins[n] \in Login
      BY <2>2
    <3>3. RealmShown(logins[n].site) = logins[n].site
      BY <3>2, RealmsShown DEF Login
    <3>. QED  BY <3>1, <3>3 DEF Face
  <2>4. PICK n \in DOMAIN logins : f = Face(ChainRows(logins)[n])
    BY <1>5, <2>1, <2>2 DEF Faces, Range
  <2>5. PICK m \in DOMAIN logins : g = Face(ChainRows(logins)[m])
    BY <1>5, <2>1, <2>2 DEF Faces, Range
  <2>6. KeyOf(logins[n]) = KeyOf(logins[m])
    BY <1>5, <2>3, <2>4, <2>5 DEF KeyOf
  <2>. QED  BY <1>4, <2>4, <2>5, <2>6 DEF DistinctKeys
<1>6. ASSUME NEW x, Pictured(x), AsAhead(x, logins, marks, <<>>), NEW r \in x.pw
      PROVE  /\ r = [site |-> r.site, user |-> r.user, title |-> r.title, pass |-> r.pass,
                     conflict |-> FALSE]
             /\ Face(r) = [site |-> r.site, user |-> r.user, title |-> r.title, pass |-> r.pass]
  <2>0. x.pw \subseteq FaceType
    BY <1>6 DEF Pictured
  <2>1. \A s \in x.pw : Face(s) = [site |-> s.site, user |-> s.user, title |-> s.title,
                                   pass |-> s.pass]
    BY <2>0, RealmsShown DEF Face, FaceType
  <2>2. ASSUME r.conflict  PROVE FALSE
    <3>1. PICK s \in x.pw : s.site = r.site /\ s.user = r.user /\ s.pass # r.pass
      BY <1>6, <2>2 DEF Pictured
    <3>2. Face(s) \in Faces(Ahead(logins, <<>>)) /\ Face(r) \in Faces(Ahead(logins, <<>>))
      BY <1>6 DEF AsAhead
    <3>3. Face(s) = Face(r)
      BY <1>5, <2>1, <3>1, <3>2
    <3>. QED  BY <2>1, <3>1, <3>3
  <2>3. r \in FaceType
    BY <2>0
  <2>4. r.conflict = FALSE
    BY <2>2, <2>3 DEF FaceType
  <2>5. r = [site |-> r.site, user |-> r.user, title |-> r.title, pass |-> r.pass,
             conflict |-> r.conflict]
    BY <2>3 DEF FaceType
  <2>. QED  BY <2>1, <2>4, <2>5
<1>. DEFINE Unflagged(f) == [site |-> f.site, user |-> f.user, title |-> f.title, pass |-> f.pass,
                         conflict |-> FALSE]
<1>7. ASSUME NEW x, Pictured(x), AsAhead(x, logins, marks, <<>>)
      PROVE  x.pw = {Unflagged(f) : f \in Faces(Ahead(logins, <<>>))}
  <2>1. \A r \in x.pw : r = Unflagged(Face(r))
    <3>. SUFFICES ASSUME NEW r \in x.pw  PROVE r = Unflagged(Face(r))
      OBVIOUS
    <3>1. /\ r = [site |-> r.site, user |-> r.user, title |-> r.title, pass |-> r.pass,
                  conflict |-> FALSE]
          /\ Face(r) = [site |-> r.site, user |-> r.user, title |-> r.title, pass |-> r.pass]
      BY <1>6, <1>7
    <3>. QED  BY <3>1
  <2>2. {Face(r) : r \in x.pw} = Faces(Ahead(logins, <<>>))
    BY <1>7 DEF AsAhead
  <2>. HIDE DEF Unflagged
  <2>3. x.pw = {Unflagged(f) : f \in {Face(r) : r \in x.pw}}
    BY <2>1
  <2>. QED  BY <2>2, <2>3
<1>8. forecast.pw = seen.pw
  BY <1>2, <1>4, <1>7
<1>9. forecast.bm = seen.bm
  BY <1>2, <1>4 DEF AsAhead
<1>10. forecast = [pw |-> forecast.pw, bm |-> forecast.bm]
       /\ seen = [pw |-> seen.pw, bm |-> seen.bm]
  BY <1>2, <1>4 DEF Pictured
<1>. QED  BY <1>8, <1>9, <1>10

\* If the outbox drains and nothing else happens, the list is then what the sync
\* before showed.
THEOREM ForeseenIsDrainedCorrect == OverlaySpec => []ForeseenIsDrained
<1>1. OverlayInit => Foreseen
  BY DEF OverlayInit, Foreseen
<1>2. OverlayInit => OverlayTypeInv
  BY OverlayTypeStarts
<1>3. OverlayTypeInv /\ Foreseen => ForeseenIsDrained
  BY ForeseenIsShown
<1>. QED  BY <1>1, <1>2, <1>3, OverlayTypeStep, ForeseenStep, PTL DEF OverlaySpec
-----------------------------------------------------------------------------
(* Reading, waiting and joining together, as they are run. *)

\* A run of the three is one of each: what is proved of a part holds in it.
THEOREM ChainParts == ChainSpec => PullSpec /\ OverlaySpec /\ TimeSpec
<1>1. ChainInit => PullInit /\ OverlayInit /\ TimeInit
  BY DEF ChainInit
<1>2. [ChainNext]_chainVars =>
        [PullNext]_pullVars /\ [OverlayNext]_overlayVars /\ [TimeNext]_timeVars
  BY DEF ChainNext, chainVars
<1>. QED  BY <1>1, <1>2, PTL DEF ChainSpec, PullSpec, OverlaySpec, TimeSpec

\* Every part of what is kept of the chain has its type, whatever other devices do.
THEOREM ChainTypeCorrect == ChainSpec => []ChainTypeOK
<1>1. PullTypeOK /\ OverlayTypeOK /\ TimeTypeOK => ChainTypeOK
  BY DEF ChainTypeOK
<1>. QED  BY <1>1, ChainParts, PullTypeCorrect, OverlayTypeCorrect, TimeTypeCorrect, PTL
=============================================================================
