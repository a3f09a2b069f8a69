----------------------------- MODULE TimeWords ------------------------------
(***************************************************************************)
(* The sync code of 25 words (time_words.rs): 24 words of seed and one     *)
(* that stands for the day it was made, counted from an epoch and rounded  *)
(* to the nearest midnight, modulo the length of the word list.  A device  *)
(* makes a code, another one parses it at some other time.  Times are in   *)
(* seconds since the epoch of the code, by the clock of the device.        *)
(***************************************************************************)
EXTENDS Integers

CONSTANT Times  \* what the clocks may show

ASSUME TimesAssumption == Times \subseteq Int

VARIABLES
  born,    \* when the code was made
  word,    \* its 25th word, as an index into the word list
  words,   \* the number of words that are pasted
  pasted,  \* when they are
  answer   \* what parse says, or "none" before

timeVars == <<born, word, words, pasted, answer>>

WORDLIST_LEN == 2048
PURE_WORDS == 24
V2_WORDS == 25
Day == 86400

Answers == {"none", "ok", "expired", "too long", "word count"}

TimeTypeOK ==
  /\ born \in Times /\ pasted \in Times
  /\ word \in 0..WORDLIST_LEN - 1
  /\ words \in {PURE_WORDS - 1, PURE_WORDS, V2_WORDS}
  /\ answer \in Answers

Abs(n) == IF n < 0 THEN -n ELSE n
-----------------------------------------------------------------------------
\* f64::round, half away from zero.
days_since_epoch(secs) ==
  IF secs >= 0 THEN (secs + Day \div 2) \div Day
               ELSE -((Day \div 2 - secs) \div Day)

\* Index of the word that generate_for_now appends: not before the epoch.
DayWord(secs) ==
  LET days == days_since_epoch(secs)
  IN  (IF days < 0 THEN 0 ELSE days) % WORDLIST_LEN

\* Mutant of Verdict: the two days must be the same.
VerdictStrict(count, index, secs) ==
  LET actual == days_since_epoch(secs) % WORDLIST_LEN IN
  IF count = PURE_WORDS THEN "ok"
  ELSE IF count # V2_WORDS THEN "word count"
  ELSE IF actual = index THEN "ok" ELSE "expired"

\* Mutant of Verdict: only a code of yesterday or earlier expires.
VerdictOnPast(count, index, secs) ==
  LET actual == days_since_epoch(secs) % WORDLIST_LEN IN
  IF count = PURE_WORDS THEN "ok"
  ELSE IF count # V2_WORDS THEN "word count"
  ELSE IF actual - index <= 1 THEN "ok" ELSE "expired"

\* parse, for seed words that are valid and a 25th word that is in the list.
Verdict(count, index, secs) ==
  LET actual == days_since_epoch(secs) % WORDLIST_LEN IN
  IF count = PURE_WORDS THEN "ok"
  ELSE IF count # V2_WORDS THEN "word count"
  ELSE IF Abs(actual - index) <= 1 THEN "ok"
  ELSE IF actual > index THEN "expired" ELSE "too long"
-----------------------------------------------------------------------------
TimeInit ==
  /\ born \in Times
  /\ word = DayWord(born)
  /\ words = V2_WORDS
  /\ pasted = born
  /\ answer = "none"

\* generate_for_now
Generate(now) ==
  /\ born' = now
  /\ word' = DayWord(now)
  /\ words' = V2_WORDS
  /\ pasted' = now
  /\ answer' = "none"

\* parse, on a device with any clock; the last words may not have been copied.
Parse(now, count) ==
  /\ words' = count
  /\ pasted' = now
  /\ answer' = Verdict(count, word, now)
  /\ UNCHANGED <<born, word>>

TimeNext ==
  \E now \in Times :
    \/ Generate(now)
    \/ \E count \in {PURE_WORDS - 1, PURE_WORDS, V2_WORDS} : Parse(now, count)

TimeSpec == TimeInit /\ [][TimeNext]_timeVars
-----------------------------------------------------------------------------
(* Properties. *)

Cycle == WORDLIST_LEN * Day

\* The word list has not started again between the two days, and no clock is
\* before the epoch.
SameCycle ==
  /\ born >= 0 /\ pasted >= 0
  /\ days_since_epoch(born) \div WORDLIST_LEN = days_since_epoch(pasted) \div WORDLIST_LEN

\* "must be within +-1 day": in one cycle of the word list a code is good for a
\* day by either clock, and the seed words alone are for ever.
FreshIsAccepted ==
  answer # "none" =>
    /\ words = PURE_WORDS => answer = "ok"
    /\ words = V2_WORDS /\ SameCycle /\ Abs(pasted - born) <= Day => answer = "ok"

\* A full code that is accepted was made less than two days away, or that and
\* whole cycles of the word list; in one cycle a refusal says whose clock is
\* ahead.
StaleIsRefused ==
  words = V2_WORDS /\ born >= 0 /\ pasted >= 0 =>
    /\ answer = "ok" => LET apart == Abs(pasted - born) % Cycle
                        IN  apart < 2 * Day \/ apart > Cycle - 2 * Day
    /\ answer = "expired" /\ SameCycle => pasted > born
    /\ answer = "too long" /\ SameCycle => pasted < born
=============================================================================
