-------------------------------- MODULE Plan --------------------------------
(***************************************************************************)
(* The split rule of internal/plan: how a file of fileSize bytes is cut    *)
(* into parts of partSize bytes.  Push, pull and the manifest decoder all  *)
(* use this one rule, so a part's range is never negotiated.  Arithmetic   *)
(* is on w-bit signed integers, MaxInt being the largest, because the      *)
(* order of the operations in countParts is there to keep them in range.   *)
(***************************************************************************)
EXTENDS Integers

CONSTANTS MaxInt,    \* the largest value of the integer type (int64 in Go)
          MaxParts   \* the largest number of parts a manifest may name

ASSUME PlanAssumption ==
    /\ MaxInt \in Nat \ {0}
    /\ MaxParts \in Nat \ {0}
    /\ MaxParts < MaxInt

\* What a w-bit addition, subtraction or product leaves of x.
Wrap(x) == ((x + MaxInt + 1) % (2 * (MaxInt + 1))) - (MaxInt + 1)

LesserOf(a, b) == IF a < b THEN a ELSE b

-----------------------------------------------------------------------------
\* Mistake: a suggestion rounded down.
SmallestPartSizeDown(fileSize) == fileSize \div MaxParts

\* countParts: divide first, add the remainder's part afterwards; a file has
\* at least one part.
CountParts(fileSize, partSize) ==
    LET whole == fileSize \div partSize
    IN  IF whole = 0 \/ fileSize % partSize # 0 THEN Wrap(whole + 1) ELSE whole

SmallestPartSize(fileSize) ==
    LET size == fileSize \div MaxParts
    IN  IF fileSize % MaxParts # 0 THEN Wrap(size + 1) ELSE size

\* Mistake: every part is as long as the part size.
PartAtFull(fileSize, partSize, i) == [offset |-> Wrap(i * partSize), size |-> partSize]

\* Part i of the split: size bytes of the file from offset on.
PartAt(fileSize, partSize, i) ==
    LET offset == Wrap(i * partSize)
    IN  [offset |-> offset, size |-> LesserOf(partSize, Wrap(fileSize - offset))]

\* plan.New: the number of parts, or the error that refuses the split and,
\* for too many parts, the part size it tells the caller to retry with.
NewPlan(fileSize, partSize) ==
    IF fileSize < 0 \/ partSize <= 0
      THEN [err |-> "invalid", numParts |-> 0, retryWith |-> 0]
    ELSE IF CountParts(fileSize, partSize) > MaxParts
      THEN [err |-> "too_many", numParts |-> 0,
            retryWith |-> SmallestPartSize(fileSize)]
    ELSE [err |-> "none", numParts |-> CountParts(fileSize, partSize), retryWith |-> 0]
=============================================================================
