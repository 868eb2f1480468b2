------------------------- MODULE FixedRecordCapture -------------------------
(***************************************************************************)
(* captureDormantFixedRecords: the records of the state directory are      *)
(* observed twice through a retained descriptor, and the descriptors of    *)
(* the first pass stay open until the second has ended.  Descriptors are   *)
(* numbers of nodes; the number of reads is not bounded here.              *)
(***************************************************************************)
EXTENDS ObservedTree

CONSTANTS
    Root,           \* the state directory
    Records         \* the names of the records, in the order of recordSpecs

At(i) == <<Root, Records[i]>>

Nothing == [kind |-> "missing"]
Present(bytes, metadata) == [kind |-> "present", bytes |-> bytes, metadata |-> metadata]

\* The local variables of the call.
Begun ==
    [stage |-> "baseline", pass |-> 1, index |-> 1,
     named |-> None, fd |-> None, opened |-> None, got |-> <<>>,
     baseline |-> None, first |-> <<>>, second |-> <<>>,
     exhausted |-> FALSE, failure |-> None, captured |-> None]

\* Faulty variant of SameSnapshot: the times are not compared.
SameSnapshotUntimed(left, right) ==
    [left EXCEPT !.stamp = 0] = [right EXCEPT !.stamp = 0]

SameSnapshot(left, right) == left = right

SameIdentity(left, right) == left.id = right.id

SafeRoot(s) == s.exact

SafeRecord(s) == s.id \in Files /\ s.exact /\ s.links = 1

\* What is on disk for the records, to compare with what is captured.
ContentOf(i) ==
    IF Named(At(i)) = None THEN Nothing
    ELSE [kind |-> IF SafeRecord(StatAt(At(i))) THEN "present" ELSE "unsafe",
          bytes |-> volume.node[Named(At(i))].bytes]

Contents == [i \in DOMAIN Records |-> ContentOf(i)]

-----------------------------------------------------------------------------

\* The first failure is the one that is reported; the guard of the directory
\* comes last once there is a baseline to compare with.
ChooseFailure(o, reason) ==
    [o EXCEPT !.failure = IF @ = None THEN reason ELSE @,
              !.named = None, !.fd = None, !.opened = None, !.got = <<>>,
              !.stage = IF o.baseline = None THEN "close" ELSE "final"]

ChooseBudgetFailure(o) ==
    ChooseFailure(o, IF o.exhausted THEN "ProofBudgetExceeded" ELSE "UnsafeRecord")

Exhausted(o) == [o EXCEPT !.exhausted = TRUE]

\* The step after stage of the same record.
Goes(stage, o) == [o EXCEPT !.stage = stage]

InitialFstatat(o) ==
    IF StatAt(At(o.index)) = None THEN Goes("confirm", o)
    ELSE IF ~SafeRecord(StatAt(At(o.index))) THEN ChooseFailure(o, "UnsafeRecord")
    ELSE [o EXCEPT !.stage = "open", !.named = StatAt(At(o.index))]

\* What was captured of a record, and the guard that follows.
Observed(record, o) ==
    LET t == [o EXCEPT !.named = None, !.fd = None, !.opened = None, !.got = <<>>,
                       !.stage = "guard"]
    IN IF o.pass = 1 THEN [t EXCEPT !.first = Append(@, record)]
       ELSE [t EXCEPT !.second = Append(@, record)]

HasIdentityAlias(records) ==
    \E i, j \in DOMAIN records :
        /\ i # j
        /\ records[i].kind = "present" /\ records[j].kind = "present"
        /\ SameIdentity(records[i].metadata, records[j].metadata)

RecordsEqual(first, second) ==
    /\ first.kind = second.kind
    /\ first.kind = "present" =>
           first.bytes = second.bytes /\ SameSnapshot(first.metadata, second.metadata)

\* A record that was read is compared with its siblings and with the first pass.
Compared(record, o) ==
    LET t == Observed(record, o)
    IN IF HasIdentityAlias(IF o.pass = 1 THEN t.first ELSE t.second)
       THEN ChooseFailure(o, "RecordIdentityAlias")
       ELSE IF o.pass = 2 /\ ~RecordsEqual(o.first[o.index], record)
       THEN ChooseFailure(o, "RecordChanged")
       ELSE t

ConfirmMissing(o) ==
    IF Named(At(o.index)) = None THEN Compared(Nothing, o) ELSE ChooseBudgetFailure(o)

OpenRecord(o) ==
    IF Named(At(o.index)) \notin Files THEN ChooseBudgetFailure(o)
    ELSE [o EXCEPT !.stage = "opened", !.fd = Named(At(o.index))]

OpenedFstat(o) ==
    IF SameSnapshot(o.named, Stat(o.fd)) /\ SafeRecord(Stat(o.fd))
    THEN [o EXCEPT !.stage = "read", !.opened = Stat(o.fd)]
    ELSE ChooseBudgetFailure(o)

\* A block at its offset, as far as the size that was observed; then the byte
\* after it, which must not be there.
BoundedPread(o) ==
    LET bytes == volume.node[o.fd].bytes
        offset == Len(o.got) + 1
    IN IF Len(o.got) < o.opened.size
       THEN IF offset > Len(bytes) THEN ChooseBudgetFailure(o)
            ELSE [o EXCEPT !.got = Append(@, bytes[offset])]
       ELSE IF offset > Len(bytes) THEN Goes("after", o) ELSE ChooseBudgetFailure(o)

AfterReadFstat(o) ==
    IF SameSnapshot(o.opened, Stat(o.fd)) THEN Goes("named", o) ELSE ChooseBudgetFailure(o)

FinalNamedFstatat(o) ==
    IF StatAt(At(o.index)) # None /\ SameSnapshot(o.opened, StatAt(At(o.index)))
    THEN Compared(Present(o.got, o.opened), o)
    ELSE ChooseBudgetFailure(o)

RootStable(o) == ~o.exhausted /\ SameSnapshot(Stat(Root), o.baseline)

Baseline(o) ==
    IF SafeRoot(Stat(Root)) THEN [o EXCEPT !.stage = "before", !.baseline = Stat(Root)]
    ELSE ChooseFailure(o, "UnsafeStateDirectory")

\* The directory is compared before and after each record and between the passes.
RootGuard(o, next) ==
    IF RootStable(o) THEN next
    ELSE ChooseFailure(o, IF o.exhausted THEN "ProofBudgetExceeded"
                          ELSE "StateDirectoryChanged")

AfterRecord(o) ==
    IF o.index < Len(Records) THEN [o EXCEPT !.stage = "before", !.index = @ + 1]
    ELSE [o EXCEPT !.stage = IF o.pass = 1 THEN "between" ELSE "held", !.index = 1]

\* The descriptors of the first pass and their names, a last time.
HeldFirstPass(o) ==
    LET record == o.first[o.index]
        next == IF o.index < Len(Records) THEN [o EXCEPT !.index = @ + 1]
                ELSE Goes("final", o)
    IN IF \/ record.kind = "missing"
          \/ /\ SameSnapshot(Stat(record.metadata.id), record.metadata)
             /\ StatAt(At(o.index)) # None
             /\ SameSnapshot(StatAt(At(o.index)), record.metadata)
             /\ SafeRecord(Stat(record.metadata.id))
       THEN next ELSE ChooseBudgetFailure(o)

\* The final guard has the last word about what is only tentative.
FinalRootGuard(o) ==
    [o EXCEPT !.stage = "close",
              !.failure = IF RootStable(o) THEN @
                          ELSE IF o.exhausted THEN "ProofBudgetExceeded"
                          ELSE "StateDirectoryChanged"]

\* A descriptor whose close is not certain overrides every other result.
Close(ok, o) ==
    LET failure == IF ok THEN o.failure ELSE "CleanupFailed"
    IN [Begun EXCEPT
           !.stage = "returned", !.failure = failure,
           !.captured = IF failure # None THEN None
                        ELSE [i \in DOMAIN Records |->
                                 IF o.first[i].kind = "missing" THEN Nothing
                                 ELSE [kind |-> "present", bytes |-> o.first[i].bytes]]]

-----------------------------------------------------------------------------

\* A call that fails in the kernel, or that the budget does not allow.
SyscallFails(o) ==
    CASE o.stage = "baseline" -> ChooseFailure(o, "UnsafeStateDirectory")
      [] o.stage \in {"before", "guard", "between"} ->
             ChooseFailure(o, "StateDirectoryChanged")
      [] o.stage = "final" ->
             [o EXCEPT !.stage = "close", !.failure = "StateDirectoryChanged"]
      [] OTHER -> ChooseBudgetFailure(o)

\* Once the budget is spent every later call is refused.
BudgetSpent(o) ==
    LET t == Exhausted(o)
    IN IF o.stage = "final" THEN FinalRootGuard(t)
       ELSE IF o.stage \in {"before", "guard", "between"} THEN RootGuard(t, t)
       ELSE ChooseFailure(t, "ProofBudgetExceeded")

Observing == {"baseline", "before", "lookup", "confirm", "open", "opened", "read",
              "after", "named", "guard", "between", "held", "final"}

Call(o) ==
    CASE o.stage = "baseline" -> Baseline(o)
      [] o.stage = "before" -> RootGuard(o, Goes("lookup", o))
      [] o.stage = "lookup" -> InitialFstatat(o)
      [] o.stage = "confirm" -> ConfirmMissing(o)
      [] o.stage = "open" -> OpenRecord(o)
      [] o.stage = "opened" -> OpenedFstat(o)
      [] o.stage = "read" -> BoundedPread(o)
      [] o.stage = "after" -> AfterReadFstat(o)
      [] o.stage = "named" -> FinalNamedFstatat(o)
      [] o.stage = "guard" -> RootGuard(o, AfterRecord(o))
      [] o.stage = "between" -> RootGuard(o, [o EXCEPT !.stage = "before", !.pass = 2])
      [] o.stage = "held" -> HeldFirstPass(o)
      [] o.stage = "final" -> FinalRootGuard(o)

Observe ==
    /\ observer.stage \in Observing
    /\ \/ observer' = Call(observer)
       \/ observer' = SyscallFails(observer)
       \/ ~observer.exhausted /\ observer' = BudgetSpent(observer)
    /\ between' = IF observer.stage = "between" THEN Contents ELSE between
    /\ UNCHANGED <<volume, clock>>

Return ==
    /\ observer.stage = "close"
    /\ \E ok \in BOOLEAN : observer' = Close(ok, observer)
    /\ UNCHANGED <<volume, clock, between>>

\* The directory as a daemon leaves it, and perhaps a record that is missing.
Init ==
    /\ clock = 0
    /\ \E absent \in SUBSET Places : volume = Left(absent)
    /\ observer = Begun
    /\ between = <<>>

Next == Observe \/ Return \/ Mutate

Spec == Init /\ [][Next]_vars

-----------------------------------------------------------------------------

TypeOK ==
    /\ observer.stage \in Observing \cup {"close", "returned"}
    /\ observer.pass \in 1..2 /\ observer.index \in DOMAIN Records
    /\ Len(observer.first) <= Len(Records)
    /\ observer.stage = "returned" =>
           (observer.captured = None) = (observer.failure # None)

\* dormant_fixed_record_capture.h: both passes match in bytes and metadata,
\* below a directory that did not change.  What is captured is then what all
\* the records were at one instant, the one between the passes, whatever was
\* written, replaced or removed while the call ran.
CapturedTogether == observer.captured # None => observer.captured = between

CaptureHolds == TypeOK /\ CapturedTogether

=============================================================================
