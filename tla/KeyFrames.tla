------------------------------ MODULE KeyFrames ------------------------------
(***************************************************************************)
(* Which frames of a recording are shown to the model                      *)
(* (src/internal/ai/keyframes/select.go, called by HandleFramesExtracted   *)
(* between the claim and the analysis).  A frame is its place in the       *)
(* timeline; indices are 0-based as in the code.                           *)
(***************************************************************************)
EXTENDS Integers, Sequences, FiniteSetsExt

CONSTANTS MaxKeys,  \* bound: frames of a recording
          MaxShown  \* bound: the configured limit

ASSUME KeyFramesAssumption == MaxKeys \in Nat /\ MaxShown \in Nat

\* Mutant of Spaced: the range is divided by the number of frames, not of gaps.
SpacedByCount(n, max, i) == (i * n) \div max

\* The i-th of max indices spread over 0..n-1; integer division rounds down.
Spaced(n, max, i) == (i * (n - 1)) \div (max - 1)

\* The frames drawn after each turn of the loop, which skips an index it has seen.
Drawn(keys, max) ==
  LET At(i) == Spaced(Len(keys), max, i)
      out[i \in 0..max] ==
        IF i = 0 THEN <<>>
        ELSE IF \E j \in 0..(i - 2) : At(j) = At(i - 1) THEN out[i - 1]
        ELSE Append(out[i - 1], keys[At(i - 1) + 1])
  IN  out

Select(keys, max) ==
  LET n == Len(keys)
  IN CASE n = 0 \/ max <= 0 -> <<>>
       [] n > 0 /\ max > 0 /\ n <= max -> keys
       [] n > max /\ max = 1 -> <<keys[1]>>
       [] n > max /\ max > 1 -> Drawn(keys, max)[max]

\* The frames of s, out of n, use the whole budget, are in order, run from the first to
\* the last, and no two gaps differ by more than one.
SpreadOver(s, n, max) ==
  LET Gap(k) == s[k + 1] - s[k]
  IN /\ Len(s) = Min({n, Max({0, max})})
     /\ \A k \in 1..(Len(s) - 1) : Gap(k) >= 1
     /\ max >= 2 /\ n >= 1 => s[1] = 1 /\ s[Len(s)] = n
     /\ \A j, k \in 1..(Len(s) - 1) : Gap(j) - Gap(k) <= 1

\* What an analysis may rely on, for every number of frames and every limit.
EvenlySpread ==
  \A n \in 0..MaxKeys, max \in -1..MaxShown :
    SpreadOver(Select([k \in 1..n |-> k], max), n, max)
==============================================================================
