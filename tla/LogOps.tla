------------------------------- MODULE LogOps -------------------------------
(***************************************************************************)
(* What the methods of raftLog compute, on a log that is a plain sequence  *)
(* of entries, index 1 first.                                              *)
(***************************************************************************)
EXTENDS Integers, Sequences

Least(a, b) == IF a <= b THEN a ELSE b
Greatest(a, b) == IF a >= b THEN a ELSE b

\* raftLog.term: 0 for the dummy entry and beyond the last index.
TermAt(l, k) == IF k \in 1..Len(l) THEN l[k].term ELSE 0

LastTerm(l) == TermAt(l, Len(l))

\* Mutants: length alone decides; a term is matched by any entry.
isLonger(l, index, t) == index >= Len(l)
matchAny(l, index, t) == index <= Len(l)

isUpToDate(l, index, t) ==
  t > LastTerm(l) \/ (t = LastTerm(l) /\ index >= Len(l))

matchTerm(l, index, t) == TermAt(l, index) = t

\* The indices at which entries sent after logIndex disagree with l.
Conflicts(l, logIndex, entries) ==
  {k \in logIndex + 1..logIndex + Len(entries) :
     ~matchTerm(l, k, entries[k - logIndex].term)}

\* raftLog.findConflict: the first of them, 0 if there is none.
findConflict(l, logIndex, entries) ==
  LET C == Conflicts(l, logIndex, entries)
  IN  IF C = {} THEN 0 ELSE CHOOSE k \in C : \A j \in C : k <= j

\* The log after maybeAppend has accepted entries after logIndex.
appendFrom(l, logIndex, entries, conflict) ==
  IF conflict = 0
    THEN l
    ELSE SubSeq(l, 1, conflict - 1)
           \o SubSeq(entries, conflict - logIndex, Len(entries))

\* Mutants: a commit index that follows the message backwards; one that
\* counts from zero.
commitBack(c, toCommit) == toCommit
commitFromZero(c, toCommit) == Greatest(c - 1, toCommit - 1)

\* raftLog.commitTo: never backwards.
commitTo(c, toCommit) == Greatest(c, toCommit)

=============================================================================
