----------------------------- MODULE Durations -----------------------------
(***************************************************************************)
(* Seconds as a time.Duration, which is a signed word that counts          *)
(* nanoseconds: time.Duration(n) * time.Second wraps when n is too large.  *)
(* The word is that of WordMax, its largest number; Second stands for      *)
(* 10^9.                                                                   *)
(***************************************************************************)
EXTENDS Integers

CONSTANTS WordMax, Second

ASSUME DurationAssumption == WordMax \in Nat /\ Second \in 1 .. WordMax

Wrap(n) == ((n + WordMax + 1) % (2 * WordMax + 2)) - (WordMax + 1)

InSeconds(n) == Wrap(n * Second)

============================================================================
